---- MODULE Spec2Model ----
(***************************************************************************)
(* accumulate() of src/batch/accumulate.ts (lines 494-711): the helper     *)
(* that records calls, the engine loop #resolveCalls that sends them to    *)
(* the host in round-trips, and the JavaScript job queue they run on.      *)
(*                                                                         *)
(* One step of the model is one synchronous piece of code: a job taken     *)
(* from the microtask queue, a macrotask (a timer firing, the host         *)
(* answering), or one statement of the executor while it is running.       *)
(* Promise reactions are jobs appended to the queue in the order in which  *)
(* ECMAScript appends them.                                                *)
(***************************************************************************)
EXTENDS Integers, Sequences, FiniteSets, TLC

\* ---------------------------------------------------------------- bounds
\* Three families of executors are explored. In the first the executor uses
\* helper.call alone against a host that answers every round-trip, with
\* more invocations and suspensions; in the second it uses every helper
\* method against a host that may fail; in the third it is a single async
\* function that uses helper.call alone against a host that may fail; in
\* the fourth it uses helper.call and helper.dispatch.
\* Side branches (async functions) the executor may start besides its body.
MaxSide == 1
\* Helper method invocations of one run, first family.
MaxInv == 3
\* Suspensions of the executor that are not awaits of a helper promise
\* (await null, await delay()), first family.
MaxSusp == 3
\* Helper method invocations of one run, second family.
MaxMethodInv == 2
\* Suspensions, second family.
MaxMethodSusp == 1
\* Calls given to one helper.batch().
MaxBatch == 2

\* --------------------------------------------------------------- reasons
\* A failure reason: where the error object was made, and for a host failure
\* the round-trip that failed (every failed round-trip has its own error).
Reason(src, n) == [src |-> src, n |-> n]
NoReason == Reason("none", 0)
\* "AccumulateHelper instance is not available outside of 'accumulate' block"
Unavailable == Reason("unavailable", 0)
\* The executor's own error.
ExecError == Reason("executor", 0)
HostError(round) == Reason("host", round)

Fibers == 0..MaxSide
\* The most calls one run can record.
MaxCalls == IF MaxInv > MaxMethodInv * MaxBatch THEN MaxInv ELSE MaxMethodInv * MaxBatch
Main == 0
Kinds == {"call", "cmd", "eval"}

\* What the executor may do in one run: helper method invocations,
\* suspensions, side branches, the helper methods it uses, whether its body
\* may throw, and whether the host may fail a round-trip.
Profiles ==
    {[inv |-> MaxInv, susp |-> MaxSusp, side |-> MaxSide,
      kinds |-> {"call"}, throw |-> TRUE, fail |-> FALSE],
     [inv |-> MaxMethodInv, susp |-> MaxMethodSusp, side |-> MaxSide,
      kinds |-> Kinds \cup {"batch"}, throw |-> TRUE, fail |-> TRUE],
     [inv |-> MaxInv, susp |-> MaxSusp, side |-> 0,
      kinds |-> {"call"}, throw |-> FALSE, fail |-> TRUE],
     [inv |-> MaxMethodInv, susp |-> MaxMethodSusp, side |-> MaxSide,
      kinds |-> {"call", "dispatch"}, throw |-> FALSE, fail |-> FALSE]}

VARIABLES
    calls,          \* #calls: the recorded calls, in recording order
    results,        \* #results: the result slots
    closed,         \* #closed
    closedWaiter,   \* #closedWaiter is resolved
    resolvedWaiter, \* identity of the current #resolvedWaiter
    resolvedSet,    \* the #resolvedWaiter objects resolved so far
    calledWaiter,   \* identity of the current #calledWaiter
    calledSet,      \* the #calledWaiter objects resolved so far
    loopPc,         \* #resolveCalls: "race" (line 617), "batch" (628), "done"
    loopIter,       \* number of Promise.race subscriptions made by the loop
    raceSettled,    \* the race promise of the current iteration is settled
    loopCalls,      \* local `calls` of #resolveCalls (line 621)
    lastResolved,   \* local `lastResolved` of #resolveCalls (line 623)
    hostPending,    \* the host's promise settles in a later macrotask
    microtasks,     \* the microtask queue
    running,        \* stack of executor branches running synchronously
    fibers,         \* the executor's body (0) and its side branches
    invs,           \* helper method invocations and their promises
    runSt,          \* run(): "exec", "await", "ok", "err"
    runR,           \* reason run() rejected with
    execOut,        \* the executor's promise: "none", "ok", "err"
    execAt,         \* history: calls recorded when the executor settled
    allLeft,        \* Promise.all: elements not yet fulfilled
    allSt,          \* Promise.all: "pending", "ok", "err"
    acc,            \* the promise of accumulate(): "pending", "ok", "err"
    accR,           \* reason accumulate() rejected with
    quota,          \* what the executor may still do (bounds the run)
    tickOpen,       \* a call was recorded earlier in the running job
    callLog,        \* history, per call: same job as previous call, in flight
    rounds,         \* history: the round-trips made to the host
    hostDispatch,   \* the calls made to the host's dispatch primitive
    nest,           \* the helper and engine of a nested accumulate()
    deep,           \* resolveResult: the value given and the value returned
    dfr,            \* defer(): its helper, engine and executor
    walk            \* the accumulate() of lines 204-448 with its deep walk

vars == <<calls, results, closed, closedWaiter, resolvedWaiter, resolvedSet,
          calledWaiter, calledSet, loopPc, loopIter, raceSettled, loopCalls,
          lastResolved, hostPending, microtasks, running, fibers, invs, runSt,
          runR, execOut, execAt, allLeft, allSt, acc, accR, quota, tickOpen,
          callLog, rounds, hostDispatch, nest, deep, dfr, walk>>

\* The state of the other functions modelled below, which accumulate()
\* called with a plain host connection leaves alone.
otherVars == <<deep, dfr, walk>>

\* The value of a variable in a specification that does not use it.
Unused == [st |-> "unused"]

helperVars == <<calls, results, closed, closedWaiter, resolvedWaiter,
                resolvedSet, calledWaiter, calledSet>>
loopVars == <<loopPc, loopIter, raceSettled, loopCalls, lastResolved,
              hostPending>>
accVars == <<runSt, runR, execOut, execAt, allLeft, allSt, acc, accR>>

\* ------------------------------------------------------------------ jobs
Job(t, a) == [t |-> t, a |-> a]

\* The reactions Promise.race registered on a waiter: one per iteration.
RaceJobs(from, to) == [i \in 1..(to - from + 1) |-> Job("race", from + i - 1)]

Ids == [i \in 1..Len(invs) |-> i]

\* ------------------------------------------------------------------ host
\* The value the host computes for a call: determined by the call alone.
HostVal(c) == [ok |-> TRUE, inv |-> c.inv, k |-> c.k, r |-> NoReason]

ErrorResult(r) == [ok |-> FALSE, inv |-> 0, k |-> 0, r |-> r]

HostValues(list) == [i \in 1..Len(list) |-> HostVal(list[i])]

\* What the host may answer to a round-trip of n calls: all values, a plain
\* failure, or a BatchError carrying the values of the first k calls.
HostAnswers(n) ==
    {[m |-> "ok", k |-> 0], [m |-> "fail", k |-> 0]}
        \cup {[m |-> "partial", k |-> k] : k \in 0..(n - 1)}

\* ---------------------------------------------------------------- helper
\* Mutant: the helper refuses only once the loop has ended.
AvailableWhileLoopRuns == ~closed \/ loopPc # "done"

\* Mutant: the helper never refuses.
AlwaysAvailable == TRUE

\* Mutant: the helper refuses only once accumulate() has settled.
AvailableUntilSettled == acc = "pending"

\* #ensureAvailable (lines 598-604): passes while the helper is open.
EnsureAvailable == ~closed

\* Mutant: every helper method records the same function.
PlainName(kind) == "fn"

\* The remote function a helper method records (lines 558, 587, 591).
FnName(kind) ==
    CASE kind = "cmd" -> "denops#api#cmd"
      [] kind = "eval" -> "denops#api#eval"
      [] OTHER -> "fn"

\* this.#calls.slice(this.#results.length) (line 621).
DequeueCalls == SubSeq(calls, Len(results) + 1, Len(calls))

\* Mutant: the results of a failed round-trip are not padded.
PadNothing(res, n, e) == res

\* while (results.length < calls.length) results.push(errorResult)
\* (lines 632-634).
PadResults(res, n, e) ==
    res \o [i \in 1..(IF n > Len(res) THEN n - Len(res) ELSE 0) |-> e]

\* Mutant: the results a BatchError carries are thrown away.
CatchDropsPrefix(ans, list, round) ==
    [i \in 1..Len(list) |-> ErrorResult(HostError(round))]

\* Mutant: the failure of a round-trip is swallowed.
CatchKeepsAll(ans, list, round) == HostValues(list)

\* The catch block of #resolveCalls (lines 629-635): a BatchError keeps the
\* results it carries, any other error keeps none; the rest is the error.
CatchResults(ans, list, round) ==
    PadResults(IF ans.m = "partial"
                   THEN SubSeq(HostValues(list), 1, ans.k)
                   ELSE <<>>,
               Len(list), ErrorResult(HostError(round)))

\* Mutant: the results of a round-trip are not written.
RoundKeepsNothing(ans, list, round) == <<>>

\* What `await this.#denops.batch(...calls)` leaves in `results` (626-635).
RoundResults(ans, list, round) ==
    IF ans.m = "ok" THEN HostValues(list) ELSE CatchResults(ans, list, round)

\* Mutant: the results of a round-trip take the place of the earlier ones.
ReplaceResults(list, new) == new

\* this.#results.push(...results) (line 636): new slots go to the end.
PushResults(list, new) == list \o new

\* A slot that was never written reads as undefined.
Undefined == [ok |-> TRUE, inv |-> 0, k |-> 0, r |-> NoReason]

\* Mutant: the slot before the caller's own.
CallResultOffByOne(idx) == IF idx >= 1 THEN results[idx] ELSE Undefined

\* this.#results[callIndex] (line 561); callIndex counts from 0.
CallResult(idx) == IF idx + 1 <= Len(results) THEN results[idx + 1] ELSE Undefined

\* this.#results.slice(callIndex, callIndex + calls.length) (line 577).
BatchSlice(idx, n) ==
    SubSeq(results, idx + 1, IF idx + n <= Len(results) THEN idx + n ELSE Len(results))

\* Mutant: batch() finds no failed slot.
NoFirstError(slots) == 0

\* results.findIndex(isErrorResult) (line 578), counting from 1; 0 if none.
FirstError(slots) ==
    IF \E i \in 1..Len(slots) : ~slots[i].ok
        THEN CHOOSE i \in 1..Len(slots) :
                 /\ ~slots[i].ok
                 /\ \A j \in 1..(i - 1) : slots[j].ok
        ELSE 0

\* Mutant: a round-trip releases the first caller suspended on the waiter.
FirstWaiterOf(w) ==
    LET ws == SelectSeq(Ids, LAMBDA i : invs[i].w = w /\ invs[i].inner = "wait")
    IN SubSeq(ws, 1, IF Len(ws) > 1 THEN 1 ELSE Len(ws))

\* The callers suspended on a #resolvedWaiter, in the order they subscribed.
WaitersOf(w) ==
    SelectSeq(Ids, LAMBDA i : invs[i].w = w /\ invs[i].inner = "wait")

\* Mutant: a completed round-trip resumes every suspended caller.
EveryCallContJob(w) ==
    LET ws == SelectSeq(Ids, LAMBDA i : invs[i].inner = "wait" /\ invs[i].idx >= 0)
    IN [i \in 1..Len(ws) |-> Job("callCont", ws[i])]

CallContJobs(w) ==
    LET ws == WaitersOf(w) IN [i \in 1..Len(ws) |-> Job("callCont", ws[i])]

\* helper.#closedWaiter.resolve() (line 524): the reactions every iteration
\* of the loop registered on it (line 618) become jobs.
CloseJobs == IF closedWaiter THEN <<>> ELSE RaceJobs(1, loopIter)

\* The record of one helper method invocation: the calls it recorded
\* (callIndex idx, n calls), the #resolvedWaiter w it waits on, the state of
\* the promise of call()/batch() (inner) and of the promise the caller
\* holds (st), what call()/batch() returned (vals), what the caller's
\* promise was fulfilled with (out), and the reason of a rejection; as
\* history, whether the helper was open, whether accumulate() had settled,
\* and whether the executor caught the rejection.
NewInv(kind, f, idx, n, w, inner, st, r) ==
    [kind |-> kind, owner |-> f, idx |-> idx, n |-> n, w |-> w,
     inner |-> inner, st |-> st, vals |-> <<>>, out |-> <<>>, r |-> r,
     at |-> IF st = "wait" THEN -1 ELSE Len(calls),
     open |-> ~closed, late |-> acc # "pending", caught |-> FALSE]

\* ---------------------------------------------------------------- scheduling
Idle == running = <<>>
Me(f) == running # <<>> /\ Head(running) = f /\ fibers[f].pc = "run"

\* The running branch leaves the processor; run() returns to accumulate()
\* the first time the executor's body does (line 704).
Leave(f) ==
    /\ running' = Tail(running)
    /\ runSt' = IF f = Main /\ runSt = "exec" THEN "await" ELSE runSt

SetFiber(f, pc, on, r) ==
    fibers' = [fibers EXCEPT ![f] = [pc |-> pc, on |-> on, r |-> r]]

\* ----------------------------------------------------- executor statements
Modes == {"forget", "await", "return"}

\* What the running branch does with the promise p a helper method gave it:
\* it keeps running ("forget": p is dropped, or kept for a later
\* Promise.all), it suspends on it (`await p`), or, being the body of a
\* plain function that has not suspended yet, it returns p, so that run()
\* awaits p itself (line 704).
ModeOk(f, mode) ==
    mode = "return" => (f = Main /\ runSt = "exec" /\ running = <<Main>>)

AfterInvoke(f, mode, id, settled, queue) ==
    /\ ModeOk(f, mode)
    /\ CASE mode = "forget" ->
              /\ microtasks' = queue
              /\ UNCHANGED <<fibers, running, runSt>>
         [] mode = "await" ->
              /\ SetFiber(f, IF settled THEN "ready" ELSE "await", id, NoReason)
              /\ microtasks' = IF settled THEN Append(queue, Job("fiber", f))
                                          ELSE queue
              /\ Leave(f)
         [] mode = "return" ->
              /\ SetFiber(f, "tail", id, NoReason)
              /\ microtasks' = IF settled THEN Append(queue, Job("runCont", 0))
                                          ELSE queue
              /\ Leave(f)

\* Mutant: new calls are put in front of the recorded ones.
UnshiftCalls(list, new) == new \o list

\* this.#calls.push(...) (lines 558, 574): new calls go to the end.
PushCalls(list, new) == list \o new

\* helper.call / helper.eval / helper.cmd (lines 555-566, 586-592).
ExecCall(f, kind, mode) ==
    /\ Me(f)
    /\ quota.inv > 0
    /\ kind \in quota.kinds
    /\ quota' = [quota EXCEPT !.inv = @ - 1]
    /\ LET id == Len(invs) + 1 IN
       IF EnsureAvailable
       THEN /\ calls' = PushCalls(calls,
                               <<[fn |-> FnName(kind), inv |-> id, k |-> 1]>>)
            /\ callLog' = Append(callLog,
                                 [cont |-> tickOpen, fl |-> loopPc = "batch"])
            /\ invs' = Append(invs, NewInv(kind, f, Len(calls), 1, resolvedWaiter,
                                           "wait", "wait", NoReason))
            /\ tickOpen' = TRUE
            /\ AfterInvoke(f, mode, id, FALSE,
                           Append(microtasks, Job("onCalled", Len(calls) + 1)))
       ELSE /\ invs' = Append(invs, NewInv(kind, f, -1, 0, 0, "err",
                                           IF kind = "cmd" THEN "wait" ELSE "err",
                                           Unavailable))
            /\ AfterInvoke(f, mode, id, kind # "cmd",
                           IF kind = "cmd"
                               THEN Append(microtasks, Job("cmdCont", id))
                               ELSE microtasks)
            /\ UNCHANGED <<calls, callLog, tickOpen>>
    /\ UNCHANGED <<otherVars, nest, hostDispatch, results, closed, closedWaiter, resolvedWaiter, resolvedSet,
                   calledWaiter, calledSet, loopVars, runR, execOut, execAt, allLeft,
                   allSt, acc, accR, rounds>>

\* Mutant: an empty batch() is treated like any other.
NeverEmptyBatch(n) == FALSE

\* if (calls.length === 0) return [] (lines 570-572).
IsEmptyBatch(n) == n = 0

\* helper.batch(...calls) (lines 568-584).
ExecBatch(f, n, mode) ==
    /\ Me(f)
    /\ quota.inv > 0
    /\ "batch" \in quota.kinds
    /\ quota' = [quota EXCEPT !.inv = @ - 1]
    /\ LET id == Len(invs) + 1 IN
       IF ~EnsureAvailable
       THEN /\ invs' = Append(invs, NewInv("batch", f, -1, 0, 0, "err", "err",
                                           Unavailable))
            /\ AfterInvoke(f, mode, id, TRUE, microtasks)
            /\ UNCHANGED <<calls, callLog, tickOpen>>
       ELSE IF IsEmptyBatch(n)
       THEN /\ invs' = Append(invs, NewInv("batch", f, -1, 0, 0, "ok", "ok",
                                           NoReason))
            /\ AfterInvoke(f, mode, id, TRUE, microtasks)
            /\ UNCHANGED <<calls, callLog, tickOpen>>
       ELSE /\ calls' = PushCalls(calls,
                               [k \in 1..n |-> [fn |-> "fn", inv |-> id, k |-> k]])
            /\ callLog' = callLog \o
                   [k \in 1..n |-> [cont |-> IF k = 1 THEN tickOpen ELSE TRUE,
                                    fl |-> loopPc = "batch"]]
            /\ invs' = Append(invs, NewInv("batch", f, Len(calls), n,
                                           resolvedWaiter, "wait", "wait", NoReason))
            /\ tickOpen' = TRUE
            /\ AfterInvoke(f, mode, id, FALSE,
                           Append(microtasks, Job("onCalled", Len(calls) + n)))
    /\ UNCHANGED <<otherVars, nest, hostDispatch, results, closed, closedWaiter, resolvedWaiter, resolvedSet,
                   calledWaiter, calledSet, loopVars, runR, execOut, execAt, allLeft,
                   allSt, acc, accR, rounds>>

\* The arguments the executor may give to dispatch(name, fn, ...args).
DispatchArgs == {<<"plugin", "f">>, <<"plugin", "g", "x">>}

\* Mutant: dispatch() forwards the plugin name alone.
ForwardName(args) == SubSeq(args, 1, 1)

\* this.#denops.dispatch(name, fn, ...args) (line 595): what the host's
\* dispatch primitive is called with.
Forward(args) == [k \in 1..Len(args) |-> args[k]]

\* What the host's dispatch primitive answers: determined by what it is
\* called with.
DispatchVal(args) == [ok |-> TRUE, inv |-> 0, k |-> 0, r |-> NoReason, of |-> args]

\* helper.dispatch (lines 594-596): the helper is neither consulted nor
\* changed; the caller is given the promise of the host's dispatch.
ExecDispatch(f, args, mode) ==
    /\ Me(f)
    /\ quota.inv > 0
    /\ "dispatch" \in quota.kinds
    /\ quota' = [quota EXCEPT !.inv = @ - 1]
    /\ invs' = Append(invs, NewInv("dispatch", f, -1, 0, 0, "wait", "wait",
                                   NoReason))
    /\ hostDispatch' = Append(hostDispatch,
                              [inv |-> Len(invs) + 1, given |-> args,
                               args |-> Forward(args)])
    /\ AfterInvoke(f, mode, Len(invs) + 1, FALSE, microtasks)
    /\ UNCHANGED <<otherVars, nest, helperVars, loopVars, runR, execOut, execAt,
                   allLeft, allSt, acc, accR, tickOpen, callLog, rounds>>

\* `await null`: the branch continues one job later.
ExecYield(f) ==
    /\ Me(f)
    /\ quota.susp > 0
    /\ quota' = [quota EXCEPT !.susp = @ - 1]
    /\ SetFiber(f, "ready", 0, NoReason)
    /\ microtasks' = Append(microtasks, Job("fiber", f))
    /\ Leave(f)
    /\ UNCHANGED <<otherVars, nest, hostDispatch, helperVars, loopVars, invs, runR, execOut, execAt, allLeft, allSt, acc,
                   accR, tickOpen, callLog, rounds>>

\* `await delay(ms)`: the branch continues in a later macrotask.
ExecSleep(f) ==
    /\ Me(f)
    /\ quota.susp > 0
    /\ quota' = [quota EXCEPT !.susp = @ - 1]
    /\ SetFiber(f, "sleep", 0, NoReason)
    /\ Leave(f)
    /\ UNCHANGED <<otherVars, nest, hostDispatch, helperVars, loopVars, microtasks, invs, runR, execOut, execAt, allLeft,
                   allSt, acc, accR, tickOpen, callLog, rounds>>

\* The executor's body starts a side branch, `(async () => {...})()`: the
\* branch runs at once, up to its first suspension.
ExecSpawn(g) ==
    /\ Me(Main)
    /\ g # Main
    /\ g <= quota.side
    /\ fibers[g].pc = "idle"
    /\ \A h \in 1..(g - 1) : fibers[h].pc # "idle"
    /\ SetFiber(g, "run", 0, NoReason)
    /\ running' = <<g>> \o running
    /\ UNCHANGED <<otherVars, nest, hostDispatch, helperVars, loopVars, microtasks, invs, accVars, quota,
                   tickOpen, callLog, rounds>>

\* A branch ends. The end of the body settles the executor's promise, and
\* run() continues one job later (`await executor(helper)`, line 704).
ExecReturn(f) ==
    /\ Me(f)
    /\ SetFiber(f, "done", 0, NoReason)
    /\ running' = Tail(running)
    /\ IF f = Main
       THEN /\ execOut' = "ok"
            /\ execAt' = Len(calls)
            /\ runSt' = "await"
            /\ microtasks' = Append(microtasks, Job("runCont", 0))
       ELSE UNCHANGED <<execOut, execAt, runSt, microtasks>>
    /\ UNCHANGED <<otherVars, nest, hostDispatch, helperVars, loopVars, invs, runR, allLeft, allSt, acc, accR,
                   quota, tickOpen, callLog, rounds>>

\* The body is an async function and throws, or returns a rejected promise.
ExecThrow ==
    /\ Me(Main)
    /\ quota.throw
    /\ SetFiber(Main, "failed", 0, ExecError)
    /\ running' = Tail(running)
    /\ execOut' = "err"
    /\ execAt' = Len(calls)
    /\ runSt' = "await"
    /\ microtasks' = Append(microtasks, Job("runCont", 0))
    /\ UNCHANGED <<otherVars, nest, hostDispatch, helperVars, loopVars, invs, runR, allLeft, allSt, acc, accR,
                   quota, tickOpen, callLog, rounds>>

\* The body is a plain function and throws before it returns: `finally`
\* closes the helper at once (lines 705-707, 522-525) and Promise.all is
\* handed a promise already rejected (line 709).
ExecThrowSync ==
    /\ Me(Main)
    /\ quota.throw
    /\ runSt = "exec"
    /\ running = <<Main>>
    /\ SetFiber(Main, "failed", 0, ExecError)
    /\ running' = Tail(running)
    /\ execOut' = "err"
    /\ execAt' = Len(calls)
    /\ closed' = TRUE
    /\ closedWaiter' = TRUE
    /\ runSt' = "err"
    /\ runR' = ExecError
    /\ microtasks' = (microtasks \o CloseJobs) \o <<Job("allReject", 0)>>
    /\ UNCHANGED <<otherVars, nest, hostDispatch, calls, results, resolvedWaiter, resolvedSet, calledWaiter,
                   calledSet, loopVars, invs, allLeft, allSt, acc, accR, quota,
                   tickOpen, callLog, rounds>>

\* ------------------------------------------------------------------ jobs
NextJob(t) == Idle /\ microtasks # <<>> /\ Head(microtasks).t = t
JobArg == Head(microtasks).a
Rest == Tail(microtasks)

\* The promise the caller of invocation i holds has settled: its awaiter,
\* a branch (`await p`), run() (`await executor(helper)`), the loop of a
\* nested accumulate() (`await this.#denops.batch(...calls)`) or the
\* reaction of the Promise.all the executor returned, is queued.
NotifyJobs(i) ==
    IF \E f \in Fibers : fibers[f].pc = "await" /\ fibers[f].on = i
        THEN <<Job("fiber", CHOOSE f \in Fibers :
                                fibers[f].pc = "await" /\ fibers[f].on = i)>>
        ELSE IF fibers[Main].pc = "tail" /\ fibers[Main].on = i
                 THEN <<Job("runCont", 0)>>
                 ELSE IF nest.st # "unused" /\ nest.hostInv = i
                          THEN <<Job("iBatchRet", 0)>>
                          ELSE IF fibers[Main].pc = "all" /\ invs[i].owner = Main
                                   THEN <<Job("execElem", i)>>
                                   ELSE <<>>

NotifyFibers(i) ==
    [f \in Fibers |->
        IF fibers[f].pc = "await" /\ fibers[f].on = i
            THEN [fibers[f] EXCEPT !.pc = "ready"]
            ELSE fibers[f]]

\* Mutant: the microtask signals the engine only while no round-trip is in
\* flight.
SettledWhenIdle(callCount) == callCount = Len(calls) /\ loopPc # "batch"

\* callCount === this.#calls.length (line 609): no call was recorded since
\* the microtask was queued.
Settled(callCount) == callCount = Len(calls)

\* The microtask of #onCalled (lines 608-612).
OnCalledJob ==
    /\ NextJob("onCalled")
    /\ tickOpen' = FALSE
    /\ IF Settled(JobArg) /\ calledWaiter \notin calledSet
       THEN /\ calledSet' = calledSet \cup {calledWaiter}
            /\ microtasks' = IF loopPc # "batch"
                                 THEN Append(Rest, Job("race", loopIter))
                                 ELSE Rest
       ELSE /\ microtasks' = Rest
            /\ UNCHANGED calledSet
    /\ UNCHANGED <<otherVars, nest, hostDispatch, calls, results, closed, closedWaiter, resolvedWaiter,
                   resolvedSet, calledWaiter, loopVars, running, fibers, invs,
                   accVars, quota, callLog, rounds>>

\* A reaction Promise.race registered (line 617) settles the race promise
\* of its iteration, if that is still pending; the loop then continues one
\* job later.
RaceJob ==
    /\ NextJob("race")
    /\ tickOpen' = FALSE
    /\ IF JobArg = loopIter /\ ~raceSettled /\ loopPc = "race"
       THEN /\ raceSettled' = TRUE
            /\ microtasks' = Append(Rest, Job("loop", 0))
       ELSE /\ microtasks' = Rest
            /\ UNCHANGED raceSettled
    /\ UNCHANGED <<otherVars, nest, hostDispatch, helperVars, loopPc, loopIter, loopCalls, lastResolved,
                   hostPending, running, fibers, invs, accVars, quota, callLog,
                   rounds>>

\* Mutant: the loop leaves only when calls were recorded.
BreaksAfterCalls(list) == Len(list) = 0 /\ Len(calls) > 0

\* Mutant: the loop never leaves.
NeverBreaks(list) == FALSE

\* if (calls.length === 0) break (line 622).
LoopBreaks(list) == Len(list) = 0

\* #resolveCalls after the race (lines 621-628): leave the loop if nothing
\* is unsent, else renew the waiters and call the host. The host's promise
\* is either settled already when it is awaited (a stub) or settles in a
\* later macrotask.
LoopJob(immediate) ==
    /\ NextJob("loop")
    /\ tickOpen' = FALSE
    /\ LET list == DequeueCalls IN
       IF LoopBreaks(list)
       THEN /\ loopPc' = "done"
            /\ microtasks' = Append(Rest, Job("allElem", 1))
            /\ immediate
            /\ UNCHANGED <<resolvedWaiter, calledWaiter, loopCalls, lastResolved,
                           hostPending, rounds>>
       ELSE /\ loopPc' = "batch"
            /\ loopCalls' = list
            /\ lastResolved' = resolvedWaiter
            /\ resolvedWaiter' = resolvedWaiter + 1
            /\ calledWaiter' = calledWaiter + 1
            /\ rounds' = Append(rounds,
                   [list |-> list, from |-> Len(results), st |-> "flight",
                    upto |-> Len(calls), ans |-> [m |-> "none", k |-> 0],
                    prevDone |-> \A r \in 1..Len(rounds) : rounds[r].st = "done",
                    closed |-> closed])
            /\ hostPending' = ~immediate
            /\ microtasks' = IF immediate
                                 THEN Append(Rest, Job("batchRet", 0))
                                 ELSE Rest
    /\ UNCHANGED <<otherVars, nest, hostDispatch, calls, results, closed, closedWaiter, resolvedSet, calledSet,
                   loopIter, raceSettled, running, fibers, invs, accVars, quota,
                   callLog>>

\* #resolveCalls after `await this.#denops.batch(...calls)` with the host's
\* answer (lines 628-637), up to the next race (lines 616-620): the results
\* are appended, the callers of the round-trip are released, and the loop
\* subscribes to #closedWaiter and to the current #calledWaiter.
BatchReturn(ans, queue) ==
    /\ loopPc = "batch"
    /\ ans \in HostAnswers(Len(loopCalls))
    /\ ans.m = "ok" \/ quota.fail
    /\ tickOpen' = FALSE
    /\ results' = PushResults(results, RoundResults(ans, loopCalls, Len(rounds)))
    /\ resolvedSet' = resolvedSet \cup {lastResolved}
    /\ loopPc' = "race"
    /\ loopIter' = loopIter + 1
    /\ raceSettled' = FALSE
    /\ hostPending' = FALSE
    /\ microtasks' =
           ((queue \o CallContJobs(lastResolved))
               \o (IF closedWaiter THEN <<Job("race", loopIter + 1)>> ELSE <<>>))
               \o (IF calledWaiter \in calledSet
                       THEN <<Job("race", loopIter + 1)>> ELSE <<>>)
    /\ rounds' = [rounds EXCEPT ![Len(rounds)].st = "done",
                                ![Len(rounds)].ans = ans]
    /\ UNCHANGED <<otherVars, nest, hostDispatch, calls, closed, closedWaiter, resolvedWaiter, calledWaiter,
                   calledSet, loopCalls, lastResolved, running, fibers, invs,
                   accVars, quota, callLog>>

\* The host's promise was settled when it was awaited.
BatchRetJob(ans) ==
    /\ NextJob("batchRet")
    /\ BatchReturn(ans, Rest)

\* The host answers in a macrotask.
HostReturn(ans) ==
    /\ Idle
    /\ microtasks = <<>>
    /\ hostPending
    /\ BatchReturn(ans, <<>>)

\* Mutant: call() returns the slot, whatever it holds.
CallNeverThrows(inv) ==
    [st |-> "ok", vals |-> <<CallResult(inv.idx)>>, r |-> NoReason]

\* The host answers a dispatch, in a macrotask: the promise dispatch()
\* returned is the host's own (line 595).
DispatchReturn(i) ==
    /\ Idle
    /\ microtasks = <<>>
    /\ i \in 1..Len(invs)
    /\ invs[i].kind = "dispatch"
    /\ invs[i].st = "wait"
    /\ tickOpen' = FALSE
    /\ LET d == CHOOSE k \in 1..Len(hostDispatch) : hostDispatch[k].inv = i
           v == DispatchVal(hostDispatch[d].args) IN
       invs' = [invs EXCEPT ![i].inner = "ok", ![i].st = "ok",
                            ![i].vals = <<v>>, ![i].out = <<v>>,
                            ![i].at = Len(calls)]
    /\ microtasks' = NotifyJobs(i)
    /\ fibers' = NotifyFibers(i)
    /\ UNCHANGED <<otherVars, nest, hostDispatch, helperVars, loopVars, running, accVars, quota,
                   callLog, rounds>>

\* Mutant: once run() has rejected, call() returns nothing of its slot.
CallDiscardsAfterFailure(inv) ==
    LET slot == CallResult(inv.idx) IN
    IF ~slot.ok THEN [st |-> "err", vals |-> <<>>, r |-> slot.r]
                ELSE [st |-> "ok",
                      vals |-> IF runSt = "err" THEN <<Undefined>> ELSE <<slot>>,
                      r |-> NoReason]

\* What call() returns or throws once released (lines 561-565).
CallOutcome(inv) ==
    LET slot == CallResult(inv.idx) IN
    IF ~slot.ok THEN [st |-> "err", vals |-> <<>>, r |-> slot.r]
                ELSE [st |-> "ok", vals |-> <<slot>>, r |-> NoReason]

\* What batch() returns or throws once released (lines 577-583).
BatchOutcome(inv) ==
    LET slots == BatchSlice(inv.idx, inv.n)
        e == FirstError(slots) IN
    IF e > 0 THEN [st |-> "err", vals |-> SubSeq(slots, 1, e - 1), r |-> slots[e].r]
             ELSE [st |-> "ok", vals |-> slots, r |-> NoReason]

\* call() or batch() continues after `await this.#resolvedWaiter.promise`
\* (lines 560-565, 576-583). The promise of cmd() settles one job after
\* the promise of the call() it awaits (line 587).
CallContJob ==
    /\ NextJob("callCont")
    /\ tickOpen' = FALSE
    /\ LET i == JobArg
           out == IF invs[i].kind = "batch" THEN BatchOutcome(invs[i])
                                            ELSE CallOutcome(invs[i]) IN
       IF invs[i].kind = "cmd"
       THEN /\ invs' = [invs EXCEPT ![i].inner = out.st, ![i].vals = out.vals,
                                    ![i].r = out.r]
            /\ microtasks' = Append(Rest, Job("cmdCont", i))
            /\ UNCHANGED fibers
       ELSE /\ invs' = [invs EXCEPT ![i].inner = out.st, ![i].st = out.st,
                                    ![i].vals = out.vals, ![i].out = out.vals,
                                    ![i].r = out.r, ![i].at = Len(calls)]
            /\ microtasks' = Rest \o NotifyJobs(i)
            /\ fibers' = NotifyFibers(i)
    /\ UNCHANGED <<otherVars, nest, hostDispatch, helperVars, loopVars, running, accVars, quota, callLog, rounds>>

\* cmd() continues after `await this.call(...)` (line 587): it returns
\* nothing, or throws what call() threw.
CmdContJob ==
    /\ NextJob("cmdCont")
    /\ tickOpen' = FALSE
    /\ LET i == JobArg IN
       /\ invs' = [invs EXCEPT ![i].st = invs[i].inner, ![i].out = <<>>,
                                ![i].at = Len(calls)]
       /\ microtasks' = Rest \o NotifyJobs(i)
       /\ fibers' = NotifyFibers(i)
    /\ UNCHANGED <<otherVars, nest, hostDispatch, helperVars, loopVars, running, accVars, quota, callLog, rounds>>

\* A branch continues after its await: with the value, or the await
\* throws; the branch then catches the error and goes on, or ends with it,
\* which for the body settles the executor's promise (line 704).
FiberJob(catch) ==
    /\ NextJob("fiber")
    /\ tickOpen' = FALSE
    /\ LET f == JobArg
           i == fibers[f].on IN
       IF i > 0 /\ invs[i].st = "err" /\ ~catch
       THEN /\ SetFiber(f, "failed", 0, invs[i].r)
            /\ UNCHANGED running
            /\ IF f = Main
               THEN /\ execOut' = "err"
                    /\ execAt' = Len(calls)
                    /\ microtasks' = Append(Rest, Job("runCont", 0))
               ELSE /\ microtasks' = Rest
                    /\ UNCHANGED <<execOut, execAt>>
       ELSE /\ catch
            /\ SetFiber(f, "run", 0, NoReason)
            /\ running' = <<f>>
            /\ microtasks' = Rest
            /\ UNCHANGED <<execOut, execAt>>
    /\ invs' = [i \in 1..Len(invs) |->
                   IF i = fibers[JobArg].on /\ invs[i].st = "err" /\ catch
                       THEN [invs[i] EXCEPT !.caught = TRUE]
                       ELSE invs[i]]
    /\ UNCHANGED <<otherVars, nest, hostDispatch, helperVars, loopVars, runSt, runR, allLeft, allSt, acc,
                   accR, quota, callLog, rounds>>

\* A timer fires: the branch continues after `await delay(ms)`.
TimerFire(f) ==
    /\ Idle
    /\ microtasks = <<>>
    /\ fibers[f].pc = "sleep"
    /\ tickOpen' = FALSE
    /\ running' = <<f>>
    /\ SetFiber(f, "run", 0, NoReason)
    /\ UNCHANGED <<otherVars, nest, hostDispatch, helperVars, loopVars, microtasks, invs, accVars, quota,
                   callLog, rounds>>

\* Mutant: run() takes the executor to have returned normally.
OutcomeAlwaysOk == [st |-> "ok", r |-> NoReason]

\* How the promise run() awaits has settled (line 704).
ExecutorOutcome ==
    IF fibers[Main].pc = "tail"
        THEN [st |-> invs[fibers[Main].on].st, r |-> invs[fibers[Main].on].r]
        ELSE [st |-> execOut, r |-> fibers[Main].r]

\* run() continues after `await executor(helper)`: `finally` closes the
\* helper (lines 705-707, 522-525) and the promise of run() settles, which
\* queues the reaction Promise.all registered on it (line 709).
RunContJob ==
    /\ NextJob("runCont")
    /\ tickOpen' = FALSE
    /\ closed' = TRUE
    /\ closedWaiter' = TRUE
    /\ runSt' = ExecutorOutcome.st
    /\ runR' = ExecutorOutcome.r
    /\ microtasks' = (Rest \o CloseJobs)
           \o <<IF ExecutorOutcome.st = "ok" THEN Job("allElem", 0)
                                              ELSE Job("allReject", 0)>>
    /\ UNCHANGED <<otherVars, nest, hostDispatch, calls, results, resolvedWaiter, resolvedSet, calledWaiter,
                   calledSet, loopVars, running, fibers, invs, execOut, execAt, allLeft,
                   allSt, acc, accR, quota, callLog, rounds>>

\* Promise.all (line 709): one of its two promises is fulfilled.
AllElemJob ==
    /\ NextJob("allElem")
    /\ tickOpen' = FALSE
    /\ allLeft' = allLeft - 1
    /\ IF allLeft = 1 /\ allSt = "pending"
       THEN /\ allSt' = "ok"
            /\ microtasks' = Append(Rest, Job("accCont", 0))
       ELSE /\ microtasks' = Rest
            /\ UNCHANGED allSt
    /\ UNCHANGED <<otherVars, nest, hostDispatch, helperVars, loopVars, running, fibers, invs, runSt, runR,
                   execOut, execAt, acc, accR, quota, callLog, rounds>>

\* Promise.all (line 709): run() is rejected.
AllRejectJob ==
    /\ NextJob("allReject")
    /\ tickOpen' = FALSE
    /\ IF allSt = "pending"
       THEN /\ allSt' = "err"
            /\ microtasks' = Append(Rest, Job("accCont", 0))
       ELSE /\ microtasks' = Rest
            /\ UNCHANGED allSt
    /\ UNCHANGED <<otherVars, nest, hostDispatch, helperVars, loopVars, running, fibers, invs, runSt, runR,
                   execOut, execAt, allLeft, acc, accR, quota, callLog, rounds>>

\* accumulate() continues after `await Promise.all(...)` and settles
\* (lines 709-710).
AccContJob ==
    /\ NextJob("accCont")
    /\ tickOpen' = FALSE
    /\ acc' = allSt
    /\ accR' = IF allSt = "err" THEN runR ELSE NoReason
    /\ microtasks' = Rest
    /\ UNCHANGED <<otherVars, nest, hostDispatch, helperVars, loopVars, running, fibers, invs, runSt, runR,
                   execOut, execAt, allLeft, allSt, quota, callLog, rounds>>

\* ------------------------------------------------------------ specification
\* accumulate() has made the helper (line 700) and started the loop, which
\* waits in its first race (lines 701, 617); run() is about to call the
\* executor (lines 702-704).
Fresh ==
    /\ calls = <<>>
    /\ results = <<>>
    /\ closed = FALSE
    /\ closedWaiter = FALSE
    /\ resolvedWaiter = 1
    /\ resolvedSet = {}
    /\ calledWaiter = 1
    /\ calledSet = {}
    /\ loopPc = "race"
    /\ loopIter = 1
    /\ raceSettled = FALSE
    /\ loopCalls = <<>>
    /\ lastResolved = 0
    /\ hostPending = FALSE
    /\ microtasks = <<>>
    /\ running = <<Main>>
    /\ fibers = [f \in Fibers |->
                    [pc |-> IF f = Main THEN "run" ELSE "idle", on |-> 0,
                     r |-> NoReason]]
    /\ invs = <<>>
    /\ runSt = "exec"
    /\ runR = NoReason
    /\ execOut = "none"
    /\ execAt = -1
    /\ allLeft = 2
    /\ allSt = "pending"
    /\ acc = "pending"
    /\ accR = NoReason
    /\ tickOpen = FALSE
    /\ callLog = <<>>
    /\ rounds = <<>>
    /\ hostDispatch = <<>>

Init ==
    /\ Fresh
    /\ quota \in Profiles
    /\ nest = Unused
    /\ deep = Unused
    /\ dfr = Unused
    /\ walk = Unused

Executor ==
    \/ \E f \in Fibers, kind \in Kinds, mode \in Modes : ExecCall(f, kind, mode)
    \/ \E f \in Fibers, n \in 0..MaxBatch, mode \in Modes : ExecBatch(f, n, mode)
    \/ \E f \in Fibers, args \in DispatchArgs, mode \in Modes :
           ExecDispatch(f, args, mode)
    \/ \E f \in Fibers : ExecYield(f)
    \/ \E f \in Fibers : ExecSleep(f)
    \/ \E g \in Fibers : ExecSpawn(g)
    \/ \E f \in Fibers : ExecReturn(f)
    \/ ExecThrow
    \/ ExecThrowSync

Engine ==
    \/ OnCalledJob
    \/ RaceJob
    \/ \E immediate \in BOOLEAN : LoopJob(immediate)
    \/ \E ans \in HostAnswers(MaxCalls) : BatchRetJob(ans)
    \/ \E ans \in HostAnswers(MaxCalls) : HostReturn(ans)
    \/ CallContJob
    \/ CmdContJob
    \/ \E i \in 1..MaxCalls : DispatchReturn(i)
    \/ \E catch \in BOOLEAN : FiberJob(catch)
    \/ \E f \in Fibers : TimerFire(f)
    \/ RunContJob
    \/ AllElemJob
    \/ AllRejectJob
    \/ AccContJob

Next == Executor \/ Engine

Spec == Init /\ [][Next]_vars

\* -------------------------------------------------------------- properties
RECURSIVE Cum(_)
\* Calls sent in the round-trips 1..r.
Cum(r) == IF r = 0 THEN 0 ELSE Cum(r - 1) + Len(rounds[r].list)

RoundIds == 1..Len(rounds)
CallIds == 1..Len(calls)
InvIds == 1..Len(invs)

\* Round-trip r carries the call recorded at ordinal j (counting from 1).
Carries(r, j) == \E p \in 1..Len(rounds[r].list) : rounds[r].list[p] = calls[j]

\* The invocation recorded calls (the helper was open and the list not empty).
Recorded(i) == invs[i].idx >= 0
Ordinals(i) == {invs[i].idx + k : k \in 1..invs[i].n}

\* What the host answered for the call at position p of round-trip r.
HostOutcome(r, p) ==
    IF rounds[r].ans.m = "ok" \/ (rounds[r].ans.m = "partial" /\ p <= rounds[r].ans.k)
        THEN HostVal(rounds[r].list[p])
        ELSE ErrorResult(HostError(r))

\* Nothing is left to run: no job, no timer, no answer awaited from the host.
Quiescent ==
    /\ Idle
    /\ microtasks = <<>>
    /\ ~hostPending
    /\ \A i \in 1..Len(invs) : invs[i].kind = "dispatch" => invs[i].st # "wait"
    /\ \A f \in Fibers : fibers[f].pc # "sleep"

\* C1: calls recorded in one synchronous run while no round-trip is in
\* flight are sent, all of them, in one round-trip: no call is carried by
\* two round-trips or twice by one, a round-trip that carries one of them
\* carries all of them, next to each other and in recording order, and once
\* nothing is left to run every such call has been carried by a round-trip.
C1_OneRoundTripPerTick ==
    \A j \in CallIds :
        /\ \A r1, r2 \in RoundIds : (Carries(r1, j) /\ Carries(r2, j)) => r1 = r2
        /\ \A r \in RoundIds : \A p, q \in 1..Len(rounds[r].list) :
               (rounds[r].list[p] = calls[j] /\ rounds[r].list[q] = calls[j]) => p = q
        /\ (j < Len(calls) /\ callLog[j + 1].cont /\ ~callLog[j].fl) =>
               \A r \in RoundIds :
                   /\ Carries(r, j) <=> Carries(r, j + 1)
                   /\ \A p \in 1..Len(rounds[r].list) :
                          rounds[r].list[p] = calls[j] =>
                              /\ p < Len(rounds[r].list)
                              /\ rounds[r].list[p + 1] = calls[j + 1]
        /\ (Quiescent /\ ~callLog[j].fl) => \E r \in RoundIds : Carries(r, j)

\* C2: when call B is recorded after the caller's promise of call A has
\* settled, A was carried by a completed round-trip, any round-trip
\* carrying B is a later one that started after every earlier round-trip
\* had completed, and once nothing is left to run B has been carried by
\* such a round-trip.
C2_SeparateRoundTrips ==
    \A a, b \in InvIds :
        (Recorded(a) /\ Recorded(b) /\ invs[a].st # "wait"
             /\ invs[b].idx >= invs[a].at) =>
            /\ \A ja \in Ordinals(a) :
                   \E ra \in RoundIds : Carries(ra, ja) /\ rounds[ra].st = "done"
            /\ \A ja \in Ordinals(a), jb \in Ordinals(b) :
                   \A ra, rb \in RoundIds :
                       (Carries(ra, ja) /\ Carries(rb, jb)) =>
                           ra < rb /\ rounds[rb].prevDone
            /\ Quiescent =>
                   \A jb \in Ordinals(b) : \E rb \in RoundIds : Carries(rb, jb)

\* C3: the round-trips partition a prefix of the recorded calls: round-trip
\* r carries exactly the calls after the cutoff of round-trip r - 1 up to
\* the last call recorded when it was sent, in recording order.
C3_RoundsPartitionCalls ==
    /\ Cum(Len(rounds)) <= Len(calls)
    /\ \A r \in RoundIds :
           /\ rounds[r].list = SubSeq(calls, Cum(r - 1) + 1, Cum(r))
           /\ Cum(r) = rounds[r].upto

\* C3, witness: a round-trip was sent after one that failed part-way.
C3_Witness ==
    /\ Len(rounds) >= 2
    /\ rounds[1].ans.m = "partial"
    /\ Len(rounds[1].list) >= 2

\* C4: once call() has been released, it returns the value, or throws the
\* failure, that the host answered for the very call it recorded.
C4_OwnResult ==
    \A i \in InvIds :
        (invs[i].kind # "batch" /\ Recorded(i) /\ invs[i].inner # "wait") =>
            \E r \in RoundIds : \E p \in 1..Len(rounds[r].list) :
                /\ rounds[r].st = "done"
                /\ rounds[r].list[p] = calls[invs[i].idx + 1]
                /\ IF HostOutcome(r, p).ok
                       THEN /\ invs[i].inner = "ok"
                            /\ invs[i].vals = <<HostOutcome(r, p)>>
                       ELSE /\ invs[i].inner = "err"
                            /\ invs[i].r = HostOutcome(r, p).r
                            /\ invs[i].vals = <<>>

\* C4, witness: a call recorded while a round-trip was in flight has
\* returned its value.
C4_Witness ==
    \E i \in InvIds :
        /\ invs[i].kind # "batch" /\ Recorded(i) /\ invs[i].inner = "ok"
        /\ callLog[invs[i].idx + 1].fl
        /\ invs[i].idx >= 1

\* Call j has been carried by a round-trip that has completed.
Answered(j) == \E r \in RoundIds : Carries(r, j) /\ rounds[r].st = "done"

\* C5 (as stated): when nothing is left to run, every call recorded while
\* the helper was open has been sent and answered and its caller resumed.
C5_EveryCallResolved ==
    Quiescent =>
        /\ \A j \in CallIds : Answered(j)
        /\ \A i \in InvIds : Recorded(i) => invs[i].st # "wait"

\* C6 (as stated): once the executor has settled, the engine does not stop,
\* and accumulate does not resolve, before every call the executor had
\* recorded by then was carried by a completed round-trip.
C6_FlushBeforeStop ==
    (execOut # "none" /\ (loopPc = "done" \/ acc = "ok")) =>
        \A j \in 1..execAt : Answered(j)

\* The jobs of kind t in a queue.
NumJobs(queue, t) == Cardinality({k \in 1..Len(queue) : queue[k].t = t})

\* The step leaves the recorded calls, the result slots, the round-trips
\* and the signal to the engine as they were.
EngineUntouched ==
    /\ calls' = calls
    /\ results' = results
    /\ rounds' = rounds
    /\ hostPending' = hostPending
    /\ calledSet' = calledSet
    /\ calledWaiter' = calledWaiter
    /\ resolvedWaiter' = resolvedWaiter
    /\ NumJobs(microtasks', "onCalled") = NumJobs(microtasks, "onCalled")
    /\ NumJobs(microtasks', "race") = NumJobs(microtasks, "race")

\* C7: a helper method invoked after accumulate has settled records no
\* call, does not signal the engine, starts no round-trip, and its promise
\* never settles otherwise than rejected with the 'not available outside'
\* error.
C7_ClosedHelperRejects ==
    [][/\ (acc # "pending" /\ Len(invs') > Len(invs)
           /\ invs'[Len(invs')].kind # "dispatch") =>
              /\ invs'[Len(invs')].idx = -1
              /\ invs'[Len(invs')].inner = "err"
              /\ invs'[Len(invs')].r = Unavailable
              /\ EngineUntouched
       /\ \A i \in 1..Len(invs') :
              (invs'[i].late /\ invs'[i].kind # "dispatch") =>
                  /\ invs'[i].st \in {"wait", "err"}
                  /\ invs'[i].st = "wait" => invs'[i].kind = "cmd"
                  /\ invs'[i].r = Unavailable
                  /\ invs'[i].vals = <<>> /\ invs'[i].out = <<>>]_vars

\* C7, witness: cmd() invoked after accumulate settled has rejected.
C7_Witness ==
    \E i \in InvIds :
        invs[i].late /\ invs[i].kind = "cmd" /\ invs[i].st = "err"

\* C8: batch() with no calls on an open helper returns a promise fulfilled
\* with the empty list, and the step records no call, writes no result,
\* does not signal the engine and starts no round-trip.
C8_EmptyBatch ==
    [][(/\ Len(invs') > Len(invs)
        /\ ~closed
        /\ invs'[Len(invs')].kind = "batch"
        /\ invs'[Len(invs')].n = 0) =>
           /\ invs'[Len(invs')].st = "ok"
           /\ invs'[Len(invs')].inner = "ok"
           /\ invs'[Len(invs')].vals = <<>>
           /\ invs'[Len(invs')].out = <<>>
           /\ EngineUntouched]_vars

\* C8, witness: batch() with no calls was invoked on an open helper that
\* holds a recorded, unsent call.
C8_Witness ==
    \E i \in InvIds :
        /\ invs[i].kind = "batch" /\ invs[i].n = 0 /\ invs[i].open
        /\ invs[i].st = "ok"
        /\ Len(calls) > Len(results)

\* C9 (as amended): when the executor throws, or returns a rejected
\* promise, and no call was recorded by the time run() has closed the
\* helper, the host is never called, accumulate never resolves, and once
\* nothing is left to run it has rejected with the executor's failure.
C9_FailureWithoutCalls ==
    (execOut = "err" /\ closed /\ calls = <<>>) =>
        /\ rounds = <<>>
        /\ ~hostPending
        /\ acc # "ok"
        /\ acc = "err" => accR = ExecError
        /\ Quiescent => acc = "err"

\* C9, witness: accumulate has rejected with the executor's failure, no
\* call was recorded, and the engine has stopped.
C9_Witness ==
    /\ execOut = "err" /\ closed /\ calls = <<>>
    /\ acc = "err" /\ accR = ExecError
    /\ loopPc = "done"

\* C9 (as stated): when the executor fails before any call was recorded,
\* the host is never called.
C9_NoRoundTripAfterEarlyFailure ==
    (execOut = "err" /\ execAt = 0) => rounds = <<>>

\* The round-trip failed with an error that carries no results.
TotalFailure(r) ==
    /\ rounds[r].st = "done"
    /\ rounds[r].ans.m = "fail" \/ (rounds[r].ans.m = "partial" /\ rounds[r].ans.k = 0)

\* C10: after a round-trip failed with an error carrying no results, every
\* slot of the round-trip holds that error, every call() of the round-trip
\* that was released threw it and returned no value, and no step changes a
\* slot already written.
C10_TotalFailure ==
    [][/\ SubSeq(results', 1, Len(results)) = results
       /\ \A r \in 1..Len(rounds') :
              TotalFailure(r)' =>
                  \A p \in 1..Len(rounds'[r].list) :
                      LET c == rounds'[r].list[p] IN
                      /\ rounds'[r].from + p <= Len(results')
                      /\ results'[rounds'[r].from + p] = ErrorResult(HostError(r))
                      /\ (invs'[c.inv].kind # "batch" /\ invs'[c.inv].inner # "wait") =>
                             /\ invs'[c.inv].inner = "err"
                             /\ invs'[c.inv].r = HostError(r)
                             /\ invs'[c.inv].vals = <<>>
                             /\ invs'[c.inv].out = <<>>]_vars

\* C10, witness: the second round-trip failed after the first succeeded,
\* and a caller of call() in it was resumed with the failure.
C10_Witness ==
    \E r \in RoundIds : \E i \in InvIds :
        /\ r >= 2 /\ rounds[1].ans.m = "ok" /\ rounds[r].ans.m = "fail"
        /\ rounds[r].st = "done"
        /\ invs[i].kind = "call" /\ invs[i].st = "err" /\ invs[i].r = HostError(r)

\* The round-trip failed with a BatchError that carries results.
PartialFailure(r) == rounds[r].st = "done" /\ rounds[r].ans.m = "partial"

\* C11: after a round-trip failed with a BatchError carrying the results of
\* its first k calls, the slots of those calls hold their values and the
\* later slots hold the error; each call() of the round-trip that was
\* released returned its value if its call is among the first k, and threw
\* the error otherwise.
C11_PartialFailure ==
    \A r \in RoundIds :
        PartialFailure(r) =>
            \A p \in 1..Len(rounds[r].list) :
                LET c == rounds[r].list[p]
                    slot == rounds[r].from + p IN
                /\ slot <= Len(results)
                /\ results[slot] = IF p <= rounds[r].ans.k
                                       THEN HostVal(c)
                                       ELSE ErrorResult(HostError(r))
                /\ (invs[c.inv].kind # "batch" /\ invs[c.inv].inner # "wait") =>
                       IF p <= rounds[r].ans.k
                           THEN /\ invs[c.inv].inner = "ok"
                                /\ invs[c.inv].vals = <<HostVal(c)>>
                           ELSE /\ invs[c.inv].inner = "err"
                                /\ invs[c.inv].r = HostError(r)
                                /\ invs[c.inv].vals = <<>>

\* C11, witness: of two call() carried by a round-trip that failed after its
\* first call, the first returned its value and the second threw.
C11_Witness ==
    \E r \in RoundIds : \E a, b \in InvIds :
        /\ PartialFailure(r) /\ rounds[r].ans.k = 1
        /\ Len(rounds[r].list) = 2
        /\ rounds[r].list[1].inv = a /\ rounds[r].list[2].inv = b
        /\ invs[a].kind = "call" /\ invs[a].st = "ok"
        /\ invs[b].kind = "call" /\ invs[b].st = "err"

\* The host's outcomes for the calls of the block batch() invocation i
\* recorded, in order; the block lies within round-trip r.
BlockOutcomes(i, r) ==
    [k \in 1..invs[i].n |-> HostOutcome(r, invs[i].idx + k - rounds[r].from)]

\* C12: once batch(c1..cn) has been released, its block was carried whole
\* by one completed round-trip; if the host failed a call of the block,
\* batch() threw a BatchError with the reason of the first failed call and
\* exactly the values of the calls before it, in order; otherwise it
\* returned the n values in order, whatever became of the other calls of
\* the round-trip.
C12_BatchBlock ==
    \A i \in InvIds :
        (invs[i].kind = "batch" /\ Recorded(i) /\ invs[i].inner # "wait") =>
            \E r \in RoundIds :
                /\ rounds[r].st = "done"
                /\ rounds[r].from <= invs[i].idx
                /\ invs[i].idx + invs[i].n <= rounds[r].from + Len(rounds[r].list)
                /\ LET o == BlockOutcomes(i, r)
                       bad == {k \in 1..invs[i].n : ~o[k].ok} IN
                   IF bad = {}
                       THEN /\ invs[i].st = "ok"
                            /\ invs[i].vals = o
                            /\ invs[i].out = o
                       ELSE LET e == CHOOSE k \in bad : \A m \in bad : k <= m IN
                            /\ invs[i].st = "err"
                            /\ invs[i].r = o[e].r
                            /\ invs[i].vals = SubSeq(o, 1, e - 1)

\* C12, witness: batch() of two calls threw a BatchError carrying the value
\* of its first call.
C12_Witness ==
    \E i \in InvIds :
        /\ invs[i].kind = "batch" /\ invs[i].n = 2
        /\ invs[i].st = "err" /\ Len(invs[i].vals) = 1

\* C13 (as stated): after the executor caught the rejection of a helper
\* method whose call the host failed, the calls recorded from then on are
\* sent and answered, and accumulate resolves unless the executor fails
\* later on: so it is, once nothing is left to run.
C13_CaughtFailureGoesOn ==
    \A a \in InvIds :
        (invs[a].caught /\ invs[a].r.src = "host" /\ Quiescent) =>
            /\ \A j \in CallIds : j > invs[a].at => Answered(j)
            /\ ExecutorOutcome.st # "err" => acc = "ok"

\* The host rejected round-trip r.
Rejected(r) == rounds[r].st = "done" /\ rounds[r].ans.m # "ok"

\* C14 (as amended): when the host rejects a round-trip, the step that takes
\* the rejection releases the callers of the round-trip and takes the loop
\* to its next race, leaving the helper open and accumulate pending;
\* every call() of the round-trip whose call the host left unanswered
\* throws that failure; and accumulate rejects only when run() does, with
\* the failure of run().
C14_RejectionReachesCallersOnly ==
    [][/\ (Len(rounds') = Len(rounds) /\ Len(rounds) > 0
           /\ rounds[Len(rounds)].st = "flight" /\ Rejected(Len(rounds))') =>
              /\ loopPc' = "race"
              /\ closed' = closed
              /\ closedWaiter' = closedWaiter
              /\ acc' = acc /\ allSt' = allSt /\ runSt' = runSt
              /\ NumJobs(microtasks', "callCont")
                     = NumJobs(microtasks, "callCont") + Len(WaitersOf(lastResolved))
       /\ \A r \in 1..Len(rounds') :
              Rejected(r)' =>
                  /\ \A p \in 1..Len(rounds'[r].list) :
                         LET i == rounds'[r].list[p].inv IN
                         (p > rounds'[r].ans.k /\ invs'[i].kind # "batch"
                              /\ invs'[i].inner # "wait") =>
                             invs'[i].inner = "err" /\ invs'[i].r = HostError(r)
                  /\ acc' = "err" => (runSt' = "err" /\ accR' = runR')
                  /\ (acc' = "err" /\ accR' = HostError(r)) =>
                         (ExecutorOutcome.st = "err" /\ ExecutorOutcome.r = HostError(r))']_vars

\* C14, witness: the host rejected a round-trip, a later round-trip was
\* sent, and accumulate resolved.
C14_Witness ==
    \E r \in RoundIds :
        /\ Rejected(r) /\ rounds[r].ans.m = "fail"
        /\ Len(rounds) > r /\ rounds[Len(rounds)].st = "done"
        /\ acc = "ok"

\* C14 (as stated): after the host rejected a round-trip no further
\* round-trip is sent and accumulate does not resolve.
C14_ShortCircuit ==
    \A r \in RoundIds : Rejected(r) => (Len(rounds) = r /\ acc # "ok")

\* The executor's computation has thrown or rejected: its body threw, or
\* the promise it returned is rejected.
ExecFailed ==
    \/ fibers[Main].pc = "failed"
    \/ fibers[Main].pc = "tail" /\ invs[fibers[Main].on].st = "err"

ExecFailure ==
    IF fibers[Main].pc = "tail" THEN invs[fibers[Main].on].r ELSE fibers[Main].r

\* The round-trips started after the helper was closed.
AfterClose == {r \in RoundIds : rounds[r].closed}

\* C15 (as amended): once the executor's computation has thrown or
\* rejected, accumulate never resolves; when it rejects it does so with
\* that failure and the helper is closed, and it has done so once nothing
\* is left to run; the engine starts at most one round-trip after the
\* close, the last one, which carries every call that was still unsent.
C15_ExecutorFailure ==
    /\ ExecFailed =>
           /\ acc # "ok"
           /\ acc = "err" => (accR = ExecFailure /\ closed)
           /\ Quiescent => (acc = "err" /\ closed)
    /\ Cardinality(AfterClose) <= 1
    /\ \A r \in AfterClose :
           /\ r = Len(rounds)
           /\ rounds[r].upto = Len(calls)
           /\ rounds[r].from + Len(rounds[r].list) = Len(calls)

\* C15, witness: the executor threw with a call unsent; the call was sent
\* after the close and answered, and accumulate rejected.
C15_Witness ==
    /\ ExecFailed /\ ExecFailure = ExecError
    /\ acc = "err"
    /\ \E r \in AfterClose : rounds[r].st = "done" /\ rounds[r].from < execAt

\* C15 (as stated): no round-trip is started after the close that follows
\* the failure of the executor.
C15_NoRoundTripAfterFailure ==
    ExecFailed => AfterClose = {}

\* C18: cmd() on an open helper records exactly one call, to
\* 'denops#api#cmd'; its promise settles only after a completed round-trip
\* has carried that call, fulfilled with no value if the host answered the
\* call with a value, rejected with the host's failure otherwise.
C18_Cmd ==
    \A i \in InvIds :
        (invs[i].kind = "cmd" /\ invs[i].open) =>
            /\ Recorded(i) /\ invs[i].n = 1
            /\ calls[invs[i].idx + 1] = [fn |-> "denops#api#cmd", inv |-> i, k |-> 1]
            /\ Cardinality({j \in CallIds : calls[j].inv = i}) = 1
            /\ invs[i].out = <<>>
            /\ invs[i].st # "wait" =>
                   \E r \in RoundIds :
                       /\ rounds[r].st = "done"
                       /\ rounds[r].from <= invs[i].idx
                       /\ invs[i].idx < rounds[r].from + Len(rounds[r].list)
                       /\ LET o == HostOutcome(r, invs[i].idx + 1 - rounds[r].from) IN
                          IF o.ok THEN invs[i].st = "ok"
                                  ELSE invs[i].st = "err" /\ invs[i].r = o.r

\* C18, witness: of two cmd() carried by one round-trip that failed after
\* its first call, the first resolved and the second rejected.
C18_Witness ==
    \E a, b \in InvIds :
        /\ invs[a].kind = "cmd" /\ invs[a].st = "ok" /\ invs[a].vals # <<>>
        /\ invs[b].kind = "cmd" /\ invs[b].st = "err" /\ invs[b].r.src = "host"

\* C20: dispatch() calls the host's dispatch primitive once, with the
\* arguments it was given, and hands out the host's promise; the step
\* records no call, writes no result, does not signal the engine and
\* starts no round-trip, and the promise settles with the host's answer
\* whatever the engine does.
C20_Dispatch ==
    [][/\ (Len(invs') > Len(invs) /\ invs'[Len(invs')].kind = "dispatch") =>
              /\ EngineUntouched
              /\ closed' = closed
              /\ loopPc' = loopPc
              /\ microtasks' = microtasks
                 \/ \E f \in Fibers : microtasks' = Append(microtasks, Job("fiber", f))
              /\ Len(hostDispatch') = Len(hostDispatch) + 1
              /\ hostDispatch'[Len(hostDispatch')].inv = Len(invs')
              /\ hostDispatch'[Len(hostDispatch')].args
                     = hostDispatch'[Len(hostDispatch')].given
       /\ Len(hostDispatch') # Len(hostDispatch) =>
              (Len(invs') > Len(invs) /\ invs'[Len(invs')].kind = "dispatch")
       /\ \A i \in 1..Len(invs') :
              (invs'[i].kind = "dispatch" /\ invs'[i].st # "wait") =>
                  \E d \in 1..Len(hostDispatch') :
                      /\ hostDispatch'[d].inv = i
                      /\ invs'[i].st = "ok"
                      /\ invs'[i].out = <<DispatchVal(hostDispatch'[d].given)>>]_vars

\* C20, witness: the promise of a dispatch() made while a call was recorded
\* and unsent settled before any round-trip had returned.
C20_Witness ==
    \E i \in InvIds :
        /\ invs[i].kind = "dispatch" /\ invs[i].st = "ok"
        /\ invs[i].at >= 1
        /\ \A r \in RoundIds : rounds[r].st = "flight"
        /\ \E d \in 1..Len(hostDispatch) :
               hostDispatch[d].inv = i /\ Len(hostDispatch[d].given) = 3

\* ------------------------------------------------------ nested accumulate()
\* accumulate(helper, innerExecutor) called by the executor with the outer
\* helper as its host connection: a second helper and a second loop, whose
\* round-trips are helper.batch() of the outer helper. The variables of
\* the model above are the outer invocation's; `nest` is the inner one's.
\*
\* The executor is `(helper) => Promise.all([...])` of outer helper.call()
\* and one accumulate(helper, (inner) => Promise.all([inner.call() ...])),
\* all made in one synchronous run, in any order.

\* Outer helper.call() of the executor.
MaxOuterCalls == 2
\* inner.call() of the inner executor.
MaxInnerCalls == 2

\* The owner of the outer helper.batch() invocations: the inner loop.
InnerLoop == MaxSide + 1

\* The inner helper and invocation right after accumulate(helper, ...) has
\* run its synchronous part with an executor recording m calls (lines
\* 700-709, 555-560): the loop waits in its first race, run() awaits the
\* executor's promise.
NestStarted(m) ==
    [st |-> "open", n |-> m, results |-> <<>>, called |-> FALSE,
     pc |-> "race", iter |-> 1, raceSettled |-> FALSE, hostInv |-> 0,
     outs |-> [k \in 1..m |-> Undefined], settled |-> {}, elems |-> 0,
     allLeft |-> 2, allSt |-> "pending", acc |-> "pending", execLeft |-> 0]

NoNest == [NestStarted(0) EXCEPT !.st = "none"]

\* The executor calls accumulate(helper, innerExecutor).
NestStart(m) ==
    /\ Me(Main)
    /\ nest.st = "none"
    /\ nest' = NestStarted(m)
    /\ microtasks' = microtasks \o [k \in 1..m |-> Job("iOnCalled", k)]
    /\ UNCHANGED <<otherVars, helperVars, loopVars, running, fibers, invs,
                   accVars, quota, tickOpen, callLog, rounds, hostDispatch>>

\* The executor returns Promise.all([...]) of what it has started: the
\* promises of its outer helper.call() and of the nested accumulate().
NestReturnAll ==
    /\ Me(Main)
    /\ nest.st # "none"
    /\ SetFiber(Main, "all", 0, NoReason)
    /\ nest' = [nest EXCEPT !.execLeft = Len(invs) + 1]
    /\ Leave(Main)
    /\ UNCHANGED <<otherVars, helperVars, loopVars, microtasks, invs, runR,
                   execOut, execAt, allLeft, allSt, acc, accR, quota, tickOpen,
                   callLog, rounds, hostDispatch>>

\* A reaction of the executor's Promise.all: one job for each promise given
\* to it, queued when that promise is fulfilled. The last one fulfils the
\* promise the executor returned, and run() continues one job later (line
\* 704).
NestAllDone ==
    /\ NextJob("execElem")
    /\ tickOpen' = FALSE
    /\ nest' = [nest EXCEPT !.execLeft = @ - 1]
    /\ IF nest.execLeft = 1
       THEN /\ SetFiber(Main, "done", 0, NoReason)
            /\ execOut' = "ok"
            /\ execAt' = Len(calls)
            /\ microtasks' = Append(Rest, Job("runCont", 0))
       ELSE /\ microtasks' = Rest
            /\ UNCHANGED <<fibers, execOut, execAt>>
    /\ UNCHANGED <<otherVars, helperVars, loopVars, running, invs, runSt,
                   runR, allLeft, allSt, acc, accR, quota, callLog,
                   rounds, hostDispatch>>

\* The microtask of the inner #onCalled (lines 608-612).
IOnCalledJob ==
    /\ NextJob("iOnCalled")
    /\ tickOpen' = FALSE
    /\ IF JobArg = nest.n /\ ~nest.called
       THEN /\ nest' = [nest EXCEPT !.called = TRUE]
            /\ microtasks' = IF nest.pc # "batch"
                                 THEN Append(Rest, Job("iRace", nest.iter))
                                 ELSE Rest
       ELSE /\ microtasks' = Rest
            /\ UNCHANGED nest
    /\ UNCHANGED <<otherVars, helperVars, loopVars, running, fibers, invs,
                   accVars, quota, callLog, rounds, hostDispatch>>

\* A reaction of the inner Promise.race (line 617) settles the race
\* promise of its iteration, if that is still pending.
IRaceJob ==
    /\ NextJob("iRace")
    /\ tickOpen' = FALSE
    /\ IF JobArg = nest.iter /\ ~nest.raceSettled /\ nest.pc = "race"
       THEN /\ nest' = [nest EXCEPT !.raceSettled = TRUE]
            /\ microtasks' = Append(Rest, Job("iLoop", 0))
       ELSE /\ microtasks' = Rest
            /\ UNCHANGED nest
    /\ UNCHANGED <<otherVars, helperVars, loopVars, running, fibers, invs,
                   accVars, quota, callLog, rounds, hostDispatch>>

\* The unsent inner calls: this.#calls.slice(this.#results.length) (621).
IDequeueCalls == [k \in 1..(nest.n - Len(nest.results)) |-> Len(nest.results) + k]

\* The inner loop after the race (lines 621-628): it leaves, or it calls
\* batch() of the outer helper with the unsent inner calls (lines 568-576),
\* which records them on the outer helper as one block.
ILoopJob ==
    /\ NextJob("iLoop")
    /\ LET list == IDequeueCalls
           id == Len(invs) + 1 IN
       IF LoopBreaks(list)
       THEN /\ nest' = [nest EXCEPT !.pc = "done"]
            /\ microtasks' = Append(Rest, Job("iAllElem", 1))
            /\ tickOpen' = FALSE
            /\ UNCHANGED <<calls, callLog, invs>>
       ELSE /\ nest' = [nest EXCEPT !.pc = "batch", !.called = FALSE,
                                    !.hostInv = id]
            /\ IF EnsureAvailable
               THEN /\ calls' = calls \o
                           [k \in 1..Len(list) |-> [fn |-> "fn", inv |-> id, k |-> k]]
                    /\ callLog' = callLog \o
                           [k \in 1..Len(list) |->
                               [cont |-> k > 1, fl |-> loopPc = "batch"]]
                    /\ invs' = Append(invs,
                           NewInv("batch", InnerLoop, Len(calls), Len(list),
                                  resolvedWaiter, "wait", "wait", NoReason))
                    /\ tickOpen' = TRUE
                    /\ microtasks' =
                           Append(Rest, Job("onCalled", Len(calls) + Len(list)))
               ELSE /\ invs' = Append(invs,
                           NewInv("batch", InnerLoop, -1, 0, 0, "err", "err",
                                  Unavailable))
                    /\ tickOpen' = FALSE
                    /\ microtasks' = Append(Rest, Job("iBatchRet", 0))
                    /\ UNCHANGED <<calls, callLog>>
    /\ UNCHANGED <<otherVars, results, closed, closedWaiter, resolvedWaiter,
                   resolvedSet, calledWaiter, calledSet, loopVars, running,
                   fibers, accVars, quota, rounds, hostDispatch>>

\* The results of the inner round-trip (lines 628-635): what batch() of the
\* outer helper returned, or the results its BatchError carries, padded.
IRoundResults(o, n) ==
    IF o.st = "ok" THEN o.vals ELSE PadResults(o.vals, n, ErrorResult(o.r))

\* The inner loop after `await this.#denops.batch(...calls)` (628-637) up
\* to its next race (616-620).
IBatchRetJob ==
    /\ NextJob("iBatchRet")
    /\ tickOpen' = FALSE
    /\ LET list == IDequeueCalls IN
       /\ nest' = [nest EXCEPT
              !.results = @ \o IRoundResults(invs[nest.hostInv], Len(list)),
              !.pc = "race", !.iter = @ + 1, !.raceSettled = FALSE,
              !.hostInv = 0]
       /\ microtasks' =
              ((Rest \o [k \in 1..Len(list) |-> Job("iCallCont", list[k])])
                  \o (IF nest.st = "closed"
                          THEN <<Job("iRace", nest.iter + 1)>> ELSE <<>>))
                  \o (IF nest.called
                          THEN <<Job("iRace", nest.iter + 1)>> ELSE <<>>)
    /\ UNCHANGED <<otherVars, helperVars, loopVars, running, fibers, invs,
                   accVars, quota, callLog, rounds, hostDispatch>>

\* inner.call() continues after `await this.#resolvedWaiter.promise` and
\* returns its slot (lines 560-565); the reaction of the inner executor's
\* Promise.all on its promise is queued.
ICallContJob ==
    /\ NextJob("iCallCont")
    /\ tickOpen' = FALSE
    /\ nest' = [nest EXCEPT !.outs[JobArg] = nest.results[JobArg],
                            !.settled = @ \cup {JobArg}]
    /\ microtasks' = Append(Rest, Job("iElem", JobArg))
    /\ UNCHANGED <<otherVars, helperVars, loopVars, running, fibers, invs,
                   accVars, quota, callLog, rounds, hostDispatch>>

\* An element of the inner executor's Promise.all is fulfilled; with the
\* last one the executor's promise is, and the inner run() continues.
IElemJob ==
    /\ NextJob("iElem")
    /\ tickOpen' = FALSE
    /\ nest' = [nest EXCEPT !.elems = @ + 1]
    /\ microtasks' = IF nest.elems + 1 = nest.n
                         THEN Append(Rest, Job("iRunCont", 0))
                         ELSE Rest
    /\ UNCHANGED <<otherVars, helperVars, loopVars, running, fibers, invs,
                   accVars, quota, callLog, rounds, hostDispatch>>

\* The inner run() continues after `await executor(helper)`: `finally`
\* closes the inner helper (lines 705-707, 522-525), which queues the
\* reaction every race of the inner loop registered on #closedWaiter
\* (lines 617-619), and the promise of run() is fulfilled.
IRunContJob ==
    /\ NextJob("iRunCont")
    /\ tickOpen' = FALSE
    /\ nest' = [nest EXCEPT !.st = "closed"]
    /\ microtasks' =
           (Rest \o [i \in 1..nest.iter |-> Job("iRace", i)])
               \o <<Job("iAllElem", 0)>>
    /\ UNCHANGED <<otherVars, helperVars, loopVars, running, fibers, invs,
                   accVars, quota, callLog, rounds, hostDispatch>>

\* A reaction of the inner Promise.all([run(), resolver]) (line 709): with
\* its second element the promise of Promise.all is fulfilled.
IAllElemJob ==
    /\ NextJob("iAllElem")
    /\ tickOpen' = FALSE
    /\ nest' = [nest EXCEPT !.allLeft = @ - 1,
                            !.allSt = IF nest.allLeft = 1 THEN "ok" ELSE @]
    /\ microtasks' = IF nest.allLeft = 1 THEN Append(Rest, Job("iAccCont", 0))
                                         ELSE Rest
    /\ UNCHANGED <<otherVars, helperVars, loopVars, running, fibers, invs,
                   accVars, quota, callLog, rounds, hostDispatch>>

\* The inner accumulate() continues after `await Promise.all(...)` and its
\* promise is fulfilled (lines 709-710), which queues the reaction the
\* executor's Promise.all registered on it.
IAccContJob ==
    /\ NextJob("iAccCont")
    /\ tickOpen' = FALSE
    /\ nest' = [nest EXCEPT !.acc = nest.allSt]
    /\ microtasks' = Append(Rest, Job("execElem", 0))
    /\ UNCHANGED <<otherVars, helperVars, loopVars, running, fibers, invs,
                   accVars, quota, callLog, rounds, hostDispatch>>

NestedInit ==
    /\ Fresh
    /\ quota = [inv |-> MaxOuterCalls, susp |-> 0, side |-> 0,
                kinds |-> {"call"}, throw |-> FALSE, fail |-> FALSE]
    /\ nest = NoNest
    /\ deep = Unused
    /\ dfr = Unused
    /\ walk = Unused

NestedNext ==
    \/ ExecCall(Main, "call", "forget")
    \/ \E m \in 1..MaxInnerCalls : NestStart(m)
    \/ NestReturnAll
    \/ NestAllDone
    \/ OnCalledJob
    \/ RaceJob
    \/ \E immediate \in BOOLEAN : LoopJob(immediate)
    \/ \E ans \in HostAnswers(MaxCalls) : BatchRetJob(ans)
    \/ \E ans \in HostAnswers(MaxCalls) : HostReturn(ans)
    \/ CallContJob
    \/ RunContJob
    \/ AllElemJob
    \/ AccContJob
    \/ IOnCalledJob
    \/ IRaceJob
    \/ ILoopJob
    \/ IBatchRetJob
    \/ ICallContJob
    \/ IElemJob
    \/ IRunContJob
    \/ IAllElemJob
    \/ IAccContJob

NestedSpec == NestedInit /\ [][NestedNext]_vars

\* The outer calls the executor recorded itself, in recording order.
OwnCalls == SelectSeq(calls, LAMBDA c : invs[c.inv].owner = Main)
\* The block the inner loop recorded on the outer helper.
InnerBlock == SelectSeq(calls, LAMBDA c : invs[c.inv].owner = InnerLoop)

\* C16 (as stated): when the executor has recorded outer calls and called
\* accumulate on the outer helper in one synchronous run, then once the
\* outer accumulate has resolved exactly one round-trip was made, carrying
\* the outer calls followed by the inner calls in inner recording order,
\* and every caller received the result of its own call.
C16_NestedOneRoundTrip ==
    (acc = "ok" /\ nest.st # "none" /\ OwnCalls # <<>>) =>
        /\ Len(rounds) = 1
        /\ rounds[1].list = OwnCalls \o InnerBlock
        /\ Len(InnerBlock) = nest.n
        /\ \A k \in 1..nest.n :
               /\ InnerBlock[k].k = k
               /\ nest.outs[k] = HostVal(InnerBlock[k])
        /\ \A i \in InvIds :
               invs[i].owner = Main => invs[i].out = <<HostVal(calls[invs[i].idx + 1])>>

\* --------------------------------------------------------- resolveResult()
\* The deep resolver (src/batch/accumulate.ts:415-448 and
\* src/denops_defer/batch/defer.ts:145-170) on values whose eventual values
\* are all fulfilled; what rejects is not modelled here.
\*
\* The executor's result is written as a node [t, v, o, items, props]:
\*   t = "prim"     a primitive, v its value;
\*   t = "promise"  an eventual value fulfilled with items[1] (never a
\*                  promise: a promise cannot be fulfilled with a thenable);
\*   t = "obj"      a plain record, t = "arr" an array: the fields and the
\*                  elements are own enumerable properties;
\*   t = "set"      a Set, items its elements in insertion order;
\*   t = "map"      a Map, items its entries in insertion order, each a node
\*                  with t = "entry" and items = <<key, value>>;
\*   props          the own enumerable properties in key order, each a node
\*                  with v the key and items = <<value>>: t = "prop" when
\*                  the property is writable, t = "ro" when it is not;
\*   v              of an object: "" or the name of the variable that holds
\*                  it;
\*   t = "same"     the object of the name v, written once more;
\*   o              the address of the object in the heap, 0 when the node
\*                  is not read from a heap.
Prim(x) == [t |-> "prim", v |-> x, o |-> 0, items |-> <<>>, props |-> <<>>]
Eventual(x) == [t |-> "promise", v |-> "", o |-> 0, items |-> <<x>>, props |-> <<>>]
Entry(k, x) == [t |-> "entry", v |-> "", o |-> 0, items |-> <<k, x>>, props |-> <<>>]
Prop(key, x) == [t |-> "prop", v |-> key, o |-> 0, items |-> <<x>>, props |-> <<>>]
ReadOnly(key, x) == [t |-> "ro", v |-> key, o |-> 0, items |-> <<x>>, props |-> <<>>]
Container(tag, items, props) ==
    [t |-> tag, v |-> "", o |-> 0, items |-> items, props |-> props]
Named(name, x) == [x EXCEPT !.v = name]
Same(name) == [t |-> "same", v |-> name, o |-> 0, items |-> <<>>, props |-> <<>>]

\* A JavaScript value: a primitive or a reference to the object at address
\* o of the heap. An object of the heap is [t, name, items, props], items
\* the values it holds (of a promise what it is fulfilled with, of a Map
\* its keys and values alternating) and props its own enumerable
\* properties [k, x, w]: key, value, writable.
PrimVal(x) == [t |-> "prim", v |-> x, o |-> 0]
Ref(a) == [t |-> "ref", v |-> "", o |-> a]
Thrown(reason) == [t |-> "thrown", v |-> reason, o |-> 0]
NoVal == [t |-> "none", v |-> "", o |-> 0]

\* [...obj].flat(): the keys and values of a Map, alternating (line 420).
Flat(ents) == [i \in 1..(2 * Len(ents)) |-> ents[(i + 1) \div 2].items[2 - (i % 2)]]

\* The values an object holds: the elements, or the keys and values, and
\* then the values of the properties.
Kids(x) ==
    (IF x.t = "map" THEN Flat(x.items) ELSE x.items)
        \o [i \in 1..Len(x.props) |-> x.props[i].items[1]]

\* The number of objects the value x is made of.
RECURSIVE Size(_)
RECURSIVE SizeAll(_)
SizeAll(xs) == IF xs = <<>> THEN 0 ELSE Size(Head(xs)) + SizeAll(Tail(xs))
Size(x) == IF x.t \in {"prim", "same"} THEN 0 ELSE 1 + SizeAll(Kids(x))

\* The value x when base objects were made before it: an object is made
\* after the objects it holds; a node that names an object stands for it.
ValueAt(x, base) ==
    IF x.t = "prim" THEN PrimVal(x.v)
    ELSE IF x.t = "same" THEN [t |-> "ref", v |-> x.v, o |-> 0]
    ELSE Ref(base + Size(x))

\* The objects the value x is made of, in the order they were made.
RECURSIVE Objects(_, _)
RECURSIVE ObjectsAll(_, _)
ObjectsAll(xs, base) ==
    IF xs = <<>> THEN <<>>
    ELSE Objects(Head(xs), base) \o ObjectsAll(Tail(xs), base + Size(Head(xs)))
Objects(x, base) ==
    IF x.t \in {"prim", "same"} THEN <<>>
    ELSE LET kids == Kids(x)
             n == Len(kids) - Len(x.props)
             val(i) == ValueAt(kids[i], base + SizeAll(SubSeq(kids, 1, i - 1)))
         IN ObjectsAll(kids, base) \o
                <<[t |-> x.t, name |-> x.v,
                   items |-> [i \in 1..n |-> val(i)],
                   props |-> [i \in 1..Len(x.props) |->
                                 [k |-> x.props[i].v, x |-> val(n + i),
                                  w |-> x.props[i].t = "prop"]]]>>

\* The value x where every name stands for the object of that name in h.
Linked(h, x) ==
    IF x.t = "ref" /\ x.o = 0
    THEN Ref(CHOOSE a \in 1..Len(h) : h[a].name = x.v)
    ELSE x


\* The value x as read from the heap h.
RECURSIVE Unload(_, _)
Unload(h, x) ==
    IF x.t # "ref"
    THEN [t |-> x.t, v |-> x.v, o |-> 0, items |-> <<>>, props |-> <<>>]
    ELSE LET obj == h[x.o]
             kid(i) == Unload(h, obj.items[i])
         IN [t |-> obj.t, v |-> obj.name, o |-> x.o,
             items |-> IF obj.t = "map"
                       THEN [i \in 1..(Len(obj.items) \div 2) |->
                                Entry(kid(2 * i - 1), kid(2 * i))]
                       ELSE [i \in 1..Len(obj.items) |-> kid(i)],
             props |-> [i \in 1..Len(obj.props) |->
                           IF obj.props[i].w
                           THEN Prop(obj.props[i].k, Unload(h, obj.props[i].x))
                           ELSE ReadOnly(obj.props[i].k, Unload(h, obj.props[i].x))]]

\* SameValueZero, the equality of Set elements and Map keys: two primitives
\* of one value, or one object.
SameValueZero(x, y) ==
    \/ x.t = "prim" /\ y.t = "prim" /\ x.v = y.v
    \/ x.t = "ref" /\ y.t = "ref" /\ x.o = y.o

\* Set.prototype.add.
SetAdd(elems, x) ==
    IF \E i \in 1..Len(elems) : SameValueZero(elems[i], x)
    THEN elems
    ELSE Append(elems, x)

\* Map.prototype.set: a present key keeps its place and takes the value.
MapSet(ents, k, x) ==
    IF \E i \in 1..(Len(ents) \div 2) : SameValueZero(ents[2 * i - 1], k)
    THEN [j \in 1..Len(ents) |->
             IF j % 2 = 0 /\ SameValueZero(ents[j - 1], k) THEN x ELSE ents[j]]
    ELSE ents \o <<k, x>>

\* obj.clear() followed by obj.add(value) for each value (lines 428-431).
RECURSIVE AddAll(_, _)
AddAll(elems, values) ==
    IF values = <<>> THEN elems
    ELSE AddAll(SetAdd(elems, Head(values)), Tail(values))

\* obj.clear() followed by obj.set(keyValues[i], keyValues[i + 1]) for
\* i = 0, 2, ... (lines 422-425).
RECURSIVE SetAll(_, _)
SetAll(ents, keyValues) ==
    IF Len(keyValues) < 2 THEN ents
    ELSE SetAll(MapSet(ents, keyValues[1], keyValues[2]),
                SubSeq(keyValues, 3, Len(keyValues)))

\* The heap the executor has built when it returns the value x, and the
\* value: `new Set(values)` adds the values one by one and
\* `new Map(entries)` sets the entries one by one, so that a Set given one
\* element twice holds it once and a Map given one key twice holds the
\* key once, with its last value.
Load(x) ==
    LET h == Objects(x, 0)
        given(a) == [i \in 1..Len(h[a].items) |-> Linked(h, h[a].items[i])]
    IN [h |-> [a \in 1..Len(h) |->
                  [h[a] EXCEPT !.items = IF h[a].t = "set" THEN AddAll(<<>>, given(a))
                                         ELSE IF h[a].t = "map" THEN SetAll(<<>>, given(a))
                                         ELSE given(a),
                               !.props = [i \in 1..Len(@) |->
                                             [@[i] EXCEPT !.x = Linked(h, @)]]]],
        val |-> ValueAt(x, 0)]

\* What `await obj` yields (line 416; defer.ts line 146).
Awaited(h, x) == IF x.t = "ref" /\ h[x.o].t = "promise" THEN h[x.o].items[1] ELSE x

\* obj[key].
Get(obj, key) == obj.props[CHOOSE i \in 1..Len(obj.props) : obj.props[i].k = key].x

\* obj[key] = x.
Put(obj, key, x) ==
    [obj EXCEPT !.props = [i \in 1..Len(obj.props) |->
                              IF obj.props[i].k = key THEN [obj.props[i] EXCEPT !.x = x]
                                                      ELSE obj.props[i]]]

\* Object.keys(obj) without the keys of the properties that are not
\* writable (lines 434-436).
WritableKeys(obj) ==
    LET ps == SelectSeq(obj.props, LAMBDA p : p.w)
    IN [i \in 1..Len(ps) |-> ps[i].k]

\* keys.forEach((key, i) => obj[key] = values[i]) (lines 441-444).
RECURSIVE PutAll(_, _, _)
PutAll(obj, keys, values) ==
    IF keys = <<>> THEN obj
    ELSE PutAll(Put(obj, Head(keys), Head(values)), Tail(keys), Tail(values))

\* One call of resolveResult: the call that made it and the place of its
\* promise among those the caller awaits, where it stands, the value it
\* walks, and what the caller keeps meanwhile: the keys and the values it
\* took from the container, the values resolved so far, the number of
\* promises of Promise.all still pending.
Frame(parent, slot, obj) ==
    [parent |-> parent, slot |-> slot, pc |-> "await", obj |-> obj,
     keys |-> <<>>, todo |-> <<>>, vals |-> <<>>, left |-> 0]

\* A job of the microtask queue: a reaction k for the call f with the
\* value x; n is its turn, one more than the turn of the job that queued it.
RJob(k, f, s, x, n) == [k |-> k, f |-> f, s |-> s, x |-> x, n |-> n]

\* resolveResult(v) for each of the values, called by f one after the
\* other: each call runs to its `await obj`, which takes a job as the
\* value is settled.
ResolveEach(D, f, values) ==
    [D EXCEPT !.frames = @ \o [i \in 1..Len(values) |->
                                  Frame(f, i, Awaited(D.heap, values[i]))],
              !.micro = @ \o [i \in 1..Len(values) |->
                                 RJob("await", Len(D.frames) + i, 0, NoVal, D.turn + 1)]]

\* `return obj`: the promise of the call f is fulfilled, and the caller's
\* reaction on it is queued: the element of Promise.all in accumulate.ts,
\* the continuation of the caller's await in defer.ts. The promise of the
\* first call is the one given to the caller of resolveResult.
Fulfil(D, f, x) ==
    LET fr == D.frames[f]
        E == [D EXCEPT !.frames[f].pc = "done"]
    IN IF fr.parent = 0
       THEN [E EXCEPT !.st = "resolved", !.out = x]
       ELSE [E EXCEPT !.micro =
                Append(@, RJob(IF D.kind = "accumulate" THEN "elem" ELSE "ret",
                               fr.parent, fr.slot, x, D.turn + 1))]

\* The call f throws e: its promise is rejected, and the caller's await
\* throws in its turn.
Reject(D, f, e) ==
    LET fr == D.frames[f]
        E == [D EXCEPT !.frames[f].pc = "done"]
    IN IF fr.parent = 0
       THEN [E EXCEPT !.st = "rejected", !.out = e]
       ELSE [E EXCEPT !.micro = Append(@, RJob("ret", fr.parent, fr.slot, e, D.turn + 1))]

\* `await Promise.all(values.map(resolveResult))` (lines 419-421, 427,
\* 437-440): Promise.all of no promise is fulfilled at once.
AwaitAll(D, f, pc, keys, values) ==
    LET E == ResolveEach(D, f, values)
        F == [E EXCEPT !.frames[f].pc = pc, !.frames[f].keys = keys,
                       !.frames[f].vals = values, !.frames[f].left = Len(values)]
    IN IF values = <<>>
       THEN [F EXCEPT !.micro = Append(@, RJob("all", f, 0, NoVal, D.turn + 1))]
       ELSE F

\* The block of lines 433-445 up to its await: the writable keys and the
\* values they hold.
ResolveKeys(D, f) ==
    LET obj == D.heap[D.frames[f].obj.o]
        keys == WritableKeys(obj)
    IN AwaitAll(D, f, "props", keys, [i \in 1..Len(keys) |-> Get(obj, keys[i])])

\* The loop of defer.ts lines 162-168 before its next entry: resolveResult
\* of the value and the await of it, or the return when no entry is left.
DeferEntry(D, f) ==
    LET fr == D.frames[f]
    IN IF Len(fr.vals) < Len(fr.todo)
       THEN ResolveEach(D, f, <<fr.todo[Len(fr.vals) + 1]>>)
       ELSE Fulfil(D, f, fr.obj)

\* Object.entries(obj) (defer.ts line 162): every own enumerable property,
\* as it is now.
DeferEntries(D, f) ==
    LET obj == D.heap[D.frames[f].obj.o]
    IN DeferEntry([D EXCEPT !.frames[f].pc = "props",
                            !.frames[f].keys = [i \in 1..Len(obj.props) |-> obj.props[i].k],
                            !.frames[f].todo = [i \in 1..Len(obj.props) |-> obj.props[i].x],
                            !.frames[f].vals = <<>>], f)

\* The loops of defer.ts lines 151-153 and 157-159 before their next key,
\* value or element, and line 161 when none is left.
DeferElem(D, f) ==
    LET fr == D.frames[f]
    IN IF Len(fr.vals) < Len(fr.todo)
       THEN ResolveEach(D, f, <<fr.todo[Len(fr.vals) + 1]>>)
       ELSE DeferEntries(D, f)

\* The executor has returned the value x.
ResolveStart(x) ==
    LET l == Load(x)
    IN [st |-> "input", kind |-> "", in |-> x, heap |-> l.h, root |-> l.val,
        frames |-> <<>>, micro |-> <<>>, out |-> NoVal, turn |-> 0]

ResolveFrame ==
    UNCHANGED <<dfr, walk, nest, helperVars, loopVars, running, microtasks, fibers,
                invs, accVars, quota, tickOpen, callLog, rounds, hostDispatch>>

\* The job at the head of the queue is a reaction k of the resolver kind.
ResolveJob(kind, k) ==
    /\ deep.st = "walk"
    /\ deep.kind = kind
    /\ deep.micro # <<>>
    /\ Head(deep.micro).k = k

\* The resolver once the job at the head of the queue is taken.
Taken == [deep EXCEPT !.micro = Tail(@), !.turn = Head(deep.micro).n]

\* resolveResult(obj) of accumulate (accumulate.ts line 402) up to its
\* first await (line 416).
ResolveAccumulate ==
    /\ deep.st = "input"
    /\ deep' = ResolveEach([deep EXCEPT !.st = "walk", !.kind = "accumulate"],
                           0, <<deep.root>>)
    /\ ResolveFrame

\* accumulate.ts: a call resumes from `obj = await obj` (line 416). A
\* primitive is returned; of a Map or a Set the elements are resolved
\* (lines 418-421, 426-427), of another object the properties.
RAwaitJob ==
    /\ ResolveJob("accumulate", "await")
    /\ LET f == Head(deep.micro).f
           obj == Taken.frames[f].obj
       IN deep' = IF obj.t # "ref" THEN Fulfil(Taken, f, obj)
                  ELSE IF Taken.heap[obj.o].t \in {"map", "set"}
                  THEN AwaitAll(Taken, f, "elems", <<>>, Taken.heap[obj.o].items)
                  ELSE ResolveKeys(Taken, f)
    /\ ResolveFrame

\* accumulate.ts: the promise of one resolveResult given to Promise.all is
\* fulfilled: its value is stored, and the last one fulfils the promise of
\* Promise.all.
RElemJob ==
    /\ ResolveJob("accumulate", "elem")
    /\ LET j == Head(deep.micro)
           D == [Taken EXCEPT !.frames[j.f].vals[j.s] = j.x,
                              !.frames[j.f].left = @ - 1]
       IN deep' = IF deep.frames[j.f].left = 1
                  THEN [D EXCEPT !.micro = Append(@, RJob("all", j.f, 0, NoVal, j.n + 1))]
                  ELSE D
    /\ ResolveFrame

\* accumulate.ts: a call resumes from `await Promise.all(...)`. After the
\* elements, the Map or the Set is cleared and filled with the resolved
\* values (lines 422-425, 428-431) and the properties are resolved; after
\* the properties, they are assigned and the object is returned (lines
\* 441-447).
RAllJob ==
    /\ ResolveJob("accumulate", "all")
    /\ LET f == Head(deep.micro).f
           fr == deep.frames[f]
           a == fr.obj.o
       IN deep' =
              IF fr.pc = "elems"
              THEN ResolveKeys([Taken EXCEPT !.heap[a].items =
                                   IF deep.heap[a].t = "map" THEN SetAll(<<>>, fr.vals)
                                                             ELSE AddAll(<<>>, fr.vals)], f)
              ELSE Fulfil([Taken EXCEPT !.heap[a] = PutAll(@, fr.keys, fr.vals)],
                          f, fr.obj)
    /\ ResolveFrame

\* resolveResult(result) of defer (defer.ts line 135) up to its first
\* await (line 146).
ResolveDefer ==
    /\ deep.st = "input"
    /\ deep' = ResolveEach([deep EXCEPT !.st = "walk", !.kind = "defer"],
                           0, <<deep.root>>)
    /\ ResolveFrame

\* defer.ts: a call resumes from `obj = await obj` (line 146). A primitive
\* is returned; a Map or a Set is copied and cleared (lines 149-150,
\* 155-156) and its first key or element is resolved; of another object the
\* entries are.
DRAwaitJob ==
    /\ ResolveJob("defer", "await")
    /\ LET f == Head(deep.micro).f
           obj == Taken.frames[f].obj
       IN deep' = IF obj.t # "ref" THEN Fulfil(Taken, f, obj)
                  ELSE IF Taken.heap[obj.o].t \in {"map", "set"}
                  THEN DeferElem([Taken EXCEPT !.heap[obj.o].items = <<>>,
                                               !.frames[f].pc = "elems",
                                               !.frames[f].todo = deep.heap[obj.o].items],
                                 f)
                  ELSE DeferEntries(Taken, f)
    /\ ResolveFrame

\* defer.ts: a call resumes from `await resolveResult(...)` of a key, a
\* value, an element (lines 152, 158) or a property (line 163). A value is
\* set once its key and itself are resolved, an element is added, a
\* property is assigned when the resolved value is another one than the
\* one it holds (lines 164-166), which throws a TypeError when the property
\* is not writable; a call whose callee threw throws.
DRRetJob ==
    /\ ResolveJob("defer", "ret")
    /\ LET j == Head(deep.micro)
           f == j.f
           fr == deep.frames[f]
           a == fr.obj.o
           n == Len(fr.vals) + 1
           D == [Taken EXCEPT !.frames[f].vals = Append(@, j.x)]
       IN deep' =
              IF j.x.t = "thrown" THEN Reject(Taken, f, j.x)
              ELSE IF fr.pc = "elems"
              THEN DeferElem(
                       IF deep.heap[a].t = "set"
                       THEN [D EXCEPT !.heap[a].items = SetAdd(@, j.x)]
                       ELSE IF n % 2 = 0
                       THEN [D EXCEPT !.heap[a].items = MapSet(@, fr.vals[n - 1], j.x)]
                       ELSE D, f)
              ELSE IF fr.todo[n] = j.x THEN DeferEntry(D, f)
              ELSE IF \E i \in 1..Len(deep.heap[a].props) :
                          /\ deep.heap[a].props[i].k = fr.keys[n]
                          /\ ~deep.heap[a].props[i].w
              THEN Reject(Taken, f, Thrown("TypeError"))
              ELSE DeferEntry([D EXCEPT !.heap[a] = Put(@, fr.keys[n], j.x)], f)
    /\ ResolveFrame

\* The executor's results the resolver is applied to.
MaxItems == 2
Prims == {Prim("foo"), Prim("bar")}
\* Primitives and eventual primitives.
Leaves == Prims \cup {Eventual(x) : x \in Prims}
SeqsUpTo(S, n) == UNION {[1..k -> S] : k \in 0..n}
\* The properties of a record or the elements of an array, up to MaxItems.
Fields(S, names) ==
    {[i \in 1..Len(q) |-> Prop(names[i], q[i])] : q \in SeqsUpTo(S, MaxItems)}
\* An extra property attached to a Set or a Map, or none.
Extra(S) == {<<>>} \cup {<<Prop("ext", x)>> : x \in S}
Records(S) == {Container("obj", <<>>, f) : f \in Fields(S, <<"p", "q", "r">>)}
Arrays(S) == {Container("arr", <<>>, f) : f \in Fields(S, <<"0", "1", "2">>)}
Sets(S, X) == {Container("set", q, e) : q \in SeqsUpTo(S, MaxItems), e \in Extra(X)}
Maps(K, S, X) ==
    {Container("map", q, e) :
        q \in SeqsUpTo({Entry(k, x) : k \in K, x \in S}, MaxItems), e \in Extra(X)}
\* Containers of leaves.
Flats ==
    Records(Leaves) \cup Arrays(Leaves) \cup Sets(Leaves, Leaves)
        \cup Maps(Leaves, Leaves, Leaves)
\* One container of each class holding an eventual value, and eventual
\* values resolving to them.
Inner ==
    LET e == Eventual(Prim("foo"))
        c == {Container("obj", <<>>, <<Prop("p", e)>>),
              Container("arr", <<>>, <<Prop("0", Prim("bar")), Prop("1", e)>>),
              Container("set", <<Prim("foo"), e>>, <<>>),
              Container("map", <<Entry(e, Prim("bar"))>>, <<Prop("ext", e)>>)}
    IN c \cup {Eventual(x) : x \in c}
\* Containers of containers, and eventual values resolving to them.
Nested ==
    LET c == Records(Inner) \cup Arrays(Inner) \cup Sets(Inner, Inner)
                 \cup Maps(Inner, Leaves, {}) \cup Maps(Leaves, Inner, {})
    IN c \cup {Eventual(x) : x \in c}
\* Containers that hold one object at two places: `const o = ...` as an
\* element of a Set and what another element resolves to, what two
\* elements or two keys of a Map resolve to, a key and what its value
\* resolves to, an element of an array and what another one resolves to.
Shared ==
    LET e == Eventual(Prim("foo"))
        os == {Named("o", Container("obj", <<>>, <<Prop("p", Prim("foo"))>>)),
               Named("o", Container("obj", <<>>, <<Prop("p", e)>>)),
               Named("o", Container("set", <<e, Prim("foo")>>, <<>>)),
               Named("o", Container("map", <<Entry(e, e)>>, <<>>))}
        o == Same("o")
    IN UNION {{Container("set", <<Eventual(x), Eventual(o)>>, <<>>),
               Container("set", <<x, Eventual(o)>>, <<>>),
               Container("map", <<Entry(Eventual(x), Prim("foo")),
                                  Entry(Eventual(o), Prim("bar"))>>, <<>>),
               Container("map", <<Entry(x, Eventual(o))>>, <<>>),
               Container("arr", <<>>, <<Prop("0", x), Prop("1", Eventual(o))>>)} :
              x \in os}
\* Containers with a property that is not writable
\* (Object.defineProperty(obj, key, {value, enumerable: true})), which
\* holds a primitive, an eventual value, or a container.
Frozen ==
    LET e == Eventual(Prim("foo"))
        c == Container("set", <<e>>, <<>>)
        held == {Prim("foo"), e, c, Eventual(c),
                 Container("obj", <<>>, <<ReadOnly("q", e)>>),
                 Container("arr", <<>>, <<Prop("0", e)>>)}
        one == UNION {{Container("obj", <<>>, <<ReadOnly("p", x)>>),
                       Container("arr", <<>>, <<ReadOnly("0", x)>>)} : x \in held}
        two == UNION {{Container("obj", <<>>, <<ReadOnly("p", x), Prop("q", y)>>),
                       Container("obj", <<>>, <<Prop("p", y), ReadOnly("q", x)>>),
                       Container("set", <<y>>, <<ReadOnly("ext", x)>>),
                       Container("map", <<Entry(y, y)>>, <<ReadOnly("ext", x)>>)} :
                      x \in held, y \in Leaves}
    IN one \cup two \cup {Eventual(x) : x \in one}
           \cup {Container("arr", <<>>, <<Prop("0", e), Prop("1", x)>>) : x \in one}
\* The value of the test "nested" (src/batch/defer_test.ts:450-474).
NestedTest ==
    LET key == Container("arr", <<>>,
                   <<Prop("0", Prim("foo")), Prop("1", Eventual(Prim("bar")))>>)
        map == Container("map", <<Entry(key, Eventual(Prim("42")))>>, <<>>)
        qux == Container("arr", <<>>, <<Prop("0", Prim("qux")), Prop("1", Prim("123"))>>)
        rec == Container("obj", <<>>,
                   <<Prop("foo", Container("set", <<map>>, <<>>)),
                     Prop("bar", Eventual(qux))>>)
    IN Container("arr", <<>>, <<Prop("0", rec)>>)
\* The values above that name every element of a Set and every key of a
\* Map once.
Inputs ==
    {x \in Leaves \cup Flats \cup Inner \cup Nested \cup Shared \cup Frozen
                \cup {NestedTest} :
        LET given == Objects(x, 0)
            held == Load(x).h
        IN \A a \in 1..Len(given) : Len(held[a].items) = Len(given[a].items)}

ResolveInit ==
    /\ Fresh
    /\ quota = [inv |-> 0, susp |-> 0, side |-> 0, kinds |-> {"call"},
                throw |-> FALSE, fail |-> FALSE]
    /\ nest = Unused
    /\ dfr = Unused
    /\ walk = Unused
    /\ deep \in {ResolveStart(x) : x \in Inputs}

ResolveNext ==
    \/ ResolveAccumulate
    \/ RAwaitJob
    \/ RElemJob
    \/ RAllJob
    \/ ResolveDefer
    \/ DRAwaitJob
    \/ DRRetJob

ResolveSpec == ResolveInit /\ [][ResolveNext]_vars

\* The value the executor returned, as it was, and the value given back,
\* as it is now.
Given == LET l == Load(deep.in) IN Unload(l.h, l.val)
Out == Unload(deep.heap, deep.out)

\* One primitive value or one object.
SameNode(x, y) ==
    \/ x.t = "prim" /\ y.t = "prim" /\ x.v = y.v
    \/ x.o # 0 /\ x.o = y.o

\* The value with every eventual value replaced by what it is fulfilled
\* with, at every position and depth; when ro is false, what a property
\* that is not writable holds is left as it is.
RECURSIVE Fulfilled(_, _)
Fulfilled(x, ro) ==
    IF x.t = "promise" THEN Fulfilled(x.items[1], ro)
    ELSE IF x.t = "ro" /\ ~ro THEN x
    ELSE [x EXCEPT !.items = [i \in 1..Len(x.items) |-> Fulfilled(x.items[i], ro)],
                   !.props = [i \in 1..Len(x.props) |-> Fulfilled(x.props[i], ro)]]

\* The entries a Map holds when it is given the entries q in order, and the
\* elements a Set holds when it is given the elements q in order: one per
\* key or element, at the place of the first, a key with its last value.
Held(tag, q) ==
    LET first(i) == \A j \in 1..(i - 1) :
                        ~SameNode(q[j].items[1], q[i].items[1])
        last(i) == CHOOSE j \in i..Len(q) :
                      /\ j = i \/ SameNode(q[j].items[1], q[i].items[1])
                      /\ \A l \in (j + 1)..Len(q) :
                             ~SameNode(q[l].items[1], q[i].items[1])
        one(i) == \A j \in 1..(i - 1) : ~SameNode(q[j], q[i])
        keep == IF tag = "map" THEN {i \in 1..Len(q) : first(i)}
                ELSE IF tag = "set" THEN {i \in 1..Len(q) : one(i)}
                ELSE 1..Len(q)
        nth(k) == CHOOSE i \in keep : Cardinality({j \in keep : j < i}) = k - 1
    IN [k \in 1..Cardinality(keep) |->
           IF tag = "map" THEN Entry(q[nth(k)].items[1], q[last(nth(k))].items[2])
                          ELSE q[nth(k)]]

\* The container of the same shape as x that holds the settled values.
RECURSIVE SameShape(_)
SameShape(x) ==
    [x EXCEPT !.items = Held(x.t, [i \in 1..Len(x.items) |-> SameShape(x.items[i])]),
              !.props = [i \in 1..Len(x.props) |-> SameShape(x.props[i])]]

\* Some eventual value is left in x; when ro is false, what a property
\* that is not writable holds does not count.
RECURSIVE HasEventual(_, _)
HasEventual(x, ro) ==
    /\ x.t = "ro" => ro
    /\ \/ x.t = "promise"
       \/ \E i \in 1..Len(x.items) : HasEventual(x.items[i], ro)
       \/ \E i \in 1..Len(x.props) : HasEventual(x.props[i], ro)

Resolved == deep.st \in {"resolved", "rejected"}

\* C17: for a value built from records, arrays, Sets and Maps with eventual
\* values at any position and depth, both resolveResult resolve, with the
\* container of the same shape whose every eventual value is replaced by
\* what it is fulfilled with, also inside containers an eventual value
\* resolves to; no eventual value is left but in what a property that is
\* not writable holds, which resolveResult of accumulate.ts leaves as it is.
C17_EveryEventualReplaced ==
    Resolved =>
        /\ deep.st = "resolved"
        /\ Out = SameShape(Fulfilled(Given, deep.kind = "defer"))
        /\ ~HasEventual(Out, deep.kind = "defer")

\* ------------------------------------------------------------------ defer()
\* defer (src/denops_defer/batch/defer.ts:115-143) with its DeferHelper
\* (lines 11-110), in the variable dfr. The executor is an async function
\* that runs a program of operations one after the other:
\*   "cmd"    await helper.cmd(...)
\*   "eval"   await helper.eval(...)
\*   "sleep"  await a timer
\* and returns what its last operation gave. The host answers a round-trip
\* in a later macrotask with the values or with a rejection. resolve() of
\* a deferred of std/async is an async method that awaits its argument
\* before it resolves the promise: the promise is settled, and its
\* reactions are queued, in a job of its own after the call ("settle").
MaxOps == 3
DeferOps == {"cmd", "eval", "sleep"}
DeferProgs == UNION {[1..n -> DeferOps] : n \in 1..MaxOps}

\* `undefined`.
DeferUndefined == 0
\* The value the host returns for the k-th recorded call.
DeferHostVal(k) == 40 + k

DJob(t, a, b) == [t |-> t, a |-> a, b |-> b]

\* defer() has run up to its first `await` except for the synchronous part
\* of the executor: the loop waits in its first race (line 124).
DeferStarted(prog) ==
    [st |-> "defer", prog |-> prog, pc |-> 1, exec |-> "start", waitCall |-> 0, got |-> <<>>,
     ret |-> DeferUndefined,
     calls |-> <<>>, results |-> <<>>, errors |-> <<>>, closed |-> FALSE,
     resolved |-> 1, waits |-> <<>>, calledDone |-> FALSE, calledFrom |-> 1,
     timer |-> FALSE,
     loop |-> "race", race |-> 1, raceSettled |-> FALSE, aborted |-> FALSE,
     body |-> "race1", bodySettled |-> FALSE, bodyOk |-> TRUE,
     result |-> DeferUndefined,
     micro |-> <<>>, sleeping |-> FALSE, host |-> "idle", rounds |-> <<>>]

DeferFrame ==
    UNCHANGED <<deep, walk, nest, helperVars, loopVars, running, microtasks, fibers,
                invs, accVars, quota, tickOpen, callLog, rounds, hostDispatch>>

DeferJob(t) == dfr.st = "defer" /\ dfr.micro # <<>> /\ Head(dfr.micro).t = t
DeferIdle == dfr.st = "defer" /\ dfr.micro = <<>> /\ dfr.exec # "start"

\* DeferHelper.getCalls (lines 29-31), as indices into #calls.
DeferGetCalls(d) == [k \in 1..(Len(d.calls) - Len(d.results)) |-> Len(d.results) + k]

\* The reactions of the loop's races on a promise that is resolved now:
\* one for each race from..to that subscribed to it.
RaceReactions(from, to) == [j \in 1..(to - from + 1) |-> DJob("raceR", from + j - 1, "")]

\* The reactions on aborter when aborter.resolve() (lines 136, 140)
\* settles it: those of the races of the loop made so far, none when it is
\* settled already.
AbortReactions(d) == IF d.aborted THEN <<>> ELSE RaceReactions(1, d.race)

\* The reactions on the promise of resolveCalls() when it settles: the two
\* Promise.race of defer (lines 134-135) and `await resolver` (line 137),
\* as far as defer has reached them.
ResolverReactions(d, how) ==
    <<DJob("bodyR", 1, how)>>
        \o (IF d.body \in {"race2", "resolver"} THEN <<DJob("bodyR", 2, how)>> ELSE <<>>)
        \o (IF d.body = "resolver" THEN <<DJob("bodyFin", 0, how)>> ELSE <<>>)

\* `await helper.eval(...)` of the executor (lines 95-97, 75-79): the call
\* is recorded, the timer of #onCalled is set again, and the executor waits
\* for the call.
DeferEval(d) ==
    [d EXCEPT !.calls = Append(@, [fn |-> "denops#api#eval", op |-> d.pc]),
              !.waits = Append(@, d.resolved),
              !.timer = TRUE,
              !.exec = "call", !.waitCall = Len(d.calls) + 1, !.pc = @ + 1]

\* A cmd that returns the promise of its call.
DeferCmdAwaitsCall(d) ==
    [d EXCEPT !.calls = Append(@, [fn |-> "denops#api#cmd", op |-> d.pc]),
              !.waits = Append(@, d.resolved),
              !.timer = TRUE,
              !.exec = "call", !.waitCall = Len(d.calls) + 1, !.pc = @ + 1]

\* `await helper.cmd(...)` of the executor (lines 88-93): the call is
\* recorded as by call(), and cmd returns Promise.resolve(), on which the
\* executor continues one microtask later with `undefined`.
DeferCmd(d) ==
    [d EXCEPT !.calls = Append(@, [fn |-> "denops#api#cmd", op |-> d.pc]),
              !.waits = Append(@, d.resolved),
              !.timer = TRUE,
              !.got = Append(@, DeferUndefined),
              !.exec = "await", !.pc = @ + 1,
              !.micro = Append(@, DJob("execCont", 0, ""))]

\* The executor runs its next operation, at the call of defer (line 134) or
\* when the promise it awaits is settled: DeferHelper.cmd (88-93),
\* DeferHelper.eval (95-97) over DeferHelper.call (75-82), a timer, or its
\* return. On a closed helper cmd throws (line 89) and the executor is
\* rejected at once; eval returns the promise of call, an async method,
\* which #ensureAvaiable (line 76) has rejected, and the `await` of the
\* executor throws one job later.
DeferExec ==
    /\ dfr.st = "defer"
    /\ \/ dfr.exec = "start"
       \/ DeferJob("execCont")
    /\ LET d == [dfr EXCEPT !.micro = IF dfr.exec = "start" THEN @ ELSE Tail(@)] IN
       IF dfr.exec # "start" /\ Head(dfr.micro).b = "err"
       THEN dfr' = [d EXCEPT !.exec = "failed",
                             !.micro = Append(@, DJob("bodyR", 1, "execErr"))]
       ELSE IF d.pc > Len(d.prog)
       THEN dfr' = [d EXCEPT !.exec = "done",
                             !.ret = IF d.got = <<>> THEN DeferUndefined
                                     ELSE d.got[Len(d.got)],
                             !.micro = Append(@, DJob("bodyR", 1, "exec"))]
       ELSE IF d.prog[d.pc] = "sleep"
       THEN dfr' = [d EXCEPT !.exec = "sleep", !.sleeping = TRUE, !.pc = @ + 1]
       ELSE IF d.closed /\ d.prog[d.pc] = "cmd"
       THEN dfr' = [d EXCEPT !.exec = "failed",
                             !.micro = Append(@, DJob("bodyR", 1, "execErr"))]
       ELSE IF d.closed
       THEN dfr' = [d EXCEPT !.exec = "await",
                             !.micro = Append(@, DJob("execCont", 0, "err"))]
       ELSE IF d.prog[d.pc] = "cmd"
       THEN dfr' = DeferCmd(d)
       ELSE dfr' = DeferEval(d)
    /\ DeferFrame

\* The executor's timer fires.
DeferWake ==
    /\ DeferIdle
    /\ dfr.sleeping
    /\ dfr' = [dfr EXCEPT !.sleeping = FALSE, !.exec = "await",
                          !.got = Append(@, DeferUndefined),
                          !.micro = <<DJob("execCont", 0, "")>>]
    /\ DeferFrame

\* The timer of #onCalled fires: this.#called.resolve() (line 19) is
\* called, which settles #called one job later.
DeferOnCalled ==
    /\ DeferIdle
    /\ dfr.timer
    /\ dfr' = [dfr EXCEPT !.timer = FALSE,
                          !.micro = <<DJob("settle", 0, "called")>>]
    /\ DeferFrame

\* resolve() of a deferred after its `await value`: the promise is settled
\* and its reactions are queued. #called (line 19): the races of the loop
\* that subscribed to it; aborter (lines 136, 140): all races of the loop;
\* the #resolved that addResults replaced (line 40): the calls that await
\* it (line 79). Settling a promise that is settled already does nothing.
DeferSettleJob ==
    /\ DeferJob("settle")
    /\ LET j == Head(dfr.micro)
           woken == SelectSeq([k \in 1..Len(dfr.calls) |-> k],
                              LAMBDA k : dfr.waits[k] = j.a) IN
       CASE j.b = "called" ->
                dfr' = [dfr EXCEPT
                    !.calledDone = TRUE,
                    !.micro = Tail(@) \o (IF dfr.calledDone THEN <<>>
                                          ELSE RaceReactions(dfr.calledFrom, dfr.race))]
         [] j.b = "aborter" ->
                dfr' = [dfr EXCEPT !.aborted = TRUE,
                                   !.micro = Tail(@) \o AbortReactions(dfr)]
         [] OTHER ->
                dfr' = [dfr EXCEPT
                    !.micro = Tail(@) \o [i \in 1..Len(woken) |->
                                              DJob("callCont", woken[i], "")]]
    /\ DeferFrame

\* A reaction of a Promise.race of the loop (line 124).
DeferRaceJob ==
    /\ DeferJob("raceR")
    /\ LET j == Head(dfr.micro) IN
       IF j.a = dfr.race /\ dfr.loop = "race" /\ ~dfr.raceSettled
       THEN dfr' = [dfr EXCEPT !.raceSettled = TRUE,
                               !.micro = Append(Tail(@), DJob("loopCont", 0, ""))]
       ELSE dfr' = [dfr EXCEPT !.micro = Tail(@)]
    /\ DeferFrame

\* resolveCalls after the race (lines 125-129).
DeferLoopJob ==
    /\ DeferJob("loopCont")
    /\ LET list == DeferGetCalls(dfr) IN
       IF dfr.errors # <<>>
       THEN dfr' = [dfr EXCEPT !.loop = "failed",
                               !.micro = Tail(@) \o ResolverReactions(dfr, "loopErr")]
       ELSE IF list = <<>>
       THEN dfr' = [dfr EXCEPT !.loop = "done",
                               !.micro = Tail(@) \o ResolverReactions(dfr, "loop")]
       ELSE dfr' = [dfr EXCEPT !.loop = "batch", !.host = "flight",
                               !.rounds = Append(@, list),
                               !.micro = Tail(@)]
    /\ DeferFrame

\* The host answers denops.batch(...calls) (line 129).
DeferHostReturn(ok) ==
    /\ DeferIdle
    /\ dfr.host = "flight"
    /\ dfr' = [dfr EXCEPT !.host = "idle",
                          !.micro = <<DJob("batchCont", 0, IF ok THEN "ok" ELSE "err")>>]
    /\ DeferFrame

\* resolveCalls after `await denops.batch(...calls)`: it throws, or
\* DeferHelper.addResults (lines 33-41), which calls lastResolved.resolve()
\* when every call has its result, and the next race (line 124).
DeferBatchJob ==
    /\ DeferJob("batchCont")
    /\ LET list == dfr.rounds[Len(dfr.rounds)]
           res == dfr.results \o [i \in 1..Len(list) |-> DeferHostVal(list[i])]
           all == Len(res) = Len(dfr.calls)
           called == IF all THEN FALSE ELSE dfr.calledDone IN
       IF Head(dfr.micro).b = "err"
       THEN dfr' = [dfr EXCEPT !.loop = "failed",
                               !.micro = Tail(@) \o ResolverReactions(dfr, "loopErr")]
       ELSE dfr' = [dfr EXCEPT
                !.results = res,
                !.resolved = IF all THEN @ + 1 ELSE @,
                !.calledDone = called,
                !.calledFrom = IF all THEN dfr.race + 1 ELSE @,
                !.loop = "race", !.race = @ + 1, !.raceSettled = FALSE,
                !.micro = ((Tail(@) \o (IF all
                                THEN <<DJob("settle", dfr.resolved, "resolved")>>
                                ELSE <<>>))
                            \o (IF called THEN <<DJob("raceR", dfr.race + 1, "")>> ELSE <<>>))
                            \o (IF dfr.aborted THEN <<DJob("raceR", dfr.race + 1, "")>> ELSE <<>>)]
    /\ DeferFrame

\* DeferHelper.call after `await this.#resolved` (lines 80-81): it returns
\* its slot, and the reaction on its promise is queued: the continuation
\* of the executor that awaits this call, or the reaction of the `.catch`
\* of cmd (lines 90-91).
DeferCallCont ==
    /\ DeferJob("callCont")
    /\ LET k == Head(dfr.micro).a IN
       IF dfr.exec = "call" /\ dfr.waitCall = k
       THEN dfr' = [dfr EXCEPT !.exec = "await", !.waitCall = 0,
                               !.got = Append(@, dfr.results[k]),
                               !.micro = Append(Tail(@), DJob("execCont", 0, ""))]
       ELSE dfr' = [dfr EXCEPT !.micro = Append(Tail(@), DJob("cmdR", k, ""))]
    /\ DeferFrame

\* The reaction of `.catch(...)` on the fulfilled promise of cmd's call
\* (lines 90-91): the handler is not called, #errors stays as it is.
DeferCmdJob ==
    /\ DeferJob("cmdR")
    /\ dfr' = [dfr EXCEPT !.micro = Tail(@)]
    /\ DeferFrame

\* A reaction of one of the two Promise.race of defer (lines 134-135).
DeferBodyRace ==
    /\ DeferJob("bodyR")
    /\ LET j == Head(dfr.micro) IN
       IF dfr.body = (IF j.a = 1 THEN "race1" ELSE "race2") /\ ~dfr.bodySettled
       THEN dfr' = [dfr EXCEPT
                !.bodySettled = TRUE,
                !.bodyOk = j.b \in {"exec", "loop", "resolve"},
                !.result = IF j.b = "exec" THEN dfr.ret
                           ELSE IF j.b = "loop" /\ j.a = 1 THEN DeferUndefined
                           ELSE @,
                !.micro = Append(Tail(@), DJob("bodyCont", 0, ""))]
       ELSE dfr' = [dfr EXCEPT !.micro = Tail(@)]
    /\ DeferFrame

\* defer after one of its two races (lines 134-137), or its `finally`
\* (lines 139-141) when the race rejected; aborter.resolve() is called
\* and settles aborter one job later.
DeferBodyJob ==
    /\ DeferJob("bodyCont")
    /\ IF ~dfr.bodyOk
       THEN dfr' = [dfr EXCEPT !.body = "rejected",
                               !.closed = TRUE,
                               !.micro = Append(Tail(@), DJob("settle", 0, "aborter"))]
       ELSE IF dfr.body = "race1"
       THEN dfr' = [dfr EXCEPT
                !.body = "race2", !.bodySettled = FALSE,
                !.micro = (Append(Tail(@), DJob("resolveCont", 0, "")))
                            \o (IF dfr.loop = "done" THEN <<DJob("bodyR", 2, "loop")>>
                                ELSE IF dfr.loop = "failed"
                                THEN <<DJob("bodyR", 2, "loopErr")>>
                                ELSE <<>>)]
       ELSE dfr' = [dfr EXCEPT
                !.body = "resolver",
                !.micro = Append(Tail(@), DJob("settle", 0, "aborter"))
                            \o (IF dfr.loop = "done" THEN <<DJob("bodyFin", 0, "loop")>>
                                ELSE IF dfr.loop = "failed"
                                THEN <<DJob("bodyFin", 0, "loopErr")>>
                                ELSE <<>>)]
    /\ DeferFrame

\* resolveResult(result) of a primitive after its `await obj` (line 146).
DeferResolveJob ==
    /\ DeferJob("resolveCont")
    /\ dfr' = [dfr EXCEPT !.micro = Append(Tail(@), DJob("bodyR", 2, "resolve"))]
    /\ DeferFrame

\* defer after `await resolver` (lines 137-141): it returns or throws, and
\* its `finally` calls aborter.resolve() once more and closes the helper.
DeferFinish ==
    /\ DeferJob("bodyFin")
    /\ dfr' = [dfr EXCEPT
           !.body = IF Head(dfr.micro).b = "loop" THEN "returned" ELSE "rejected",
           !.closed = TRUE,
           !.micro = Append(Tail(@), DJob("settle", 0, "aborter"))]
    /\ DeferFrame

DeferInit ==
    /\ Fresh
    /\ quota = [inv |-> 0, susp |-> 0, side |-> 0, kinds |-> {"call"},
                throw |-> FALSE, fail |-> FALSE]
    /\ nest = Unused
    /\ deep = Unused
    /\ dfr \in {DeferStarted(p) : p \in DeferProgs}
    /\ walk = Unused

DeferNext ==
    \/ DeferExec
    \/ DeferWake
    \/ DeferOnCalled
    \/ DeferSettleJob
    \/ DeferRaceJob
    \/ DeferLoopJob
    \/ \E ok \in BOOLEAN : DeferHostReturn(ok)
    \/ DeferBatchJob
    \/ DeferCallCont
    \/ DeferCmdJob
    \/ DeferBodyRace
    \/ DeferBodyJob
    \/ DeferResolveJob
    \/ DeferFinish

DeferSpec == DeferInit /\ [][DeferNext]_vars

\* The k-th recorded call is a cmd's and the next one the call of an eval
\* made right after awaiting that cmd.
CmdThenEval(k) ==
    /\ k + 1 <= Len(dfr.calls)
    /\ dfr.calls[k].fn = "denops#api#cmd"
    /\ dfr.calls[k + 1].fn = "denops#api#eval"
    /\ dfr.calls[k + 1].op = dfr.calls[k].op + 1

\* The k-th recorded call is at place i of the r-th round-trip.
SentAt(k, r, i) == i \in 1..Len(dfr.rounds[r]) /\ dfr.rounds[r][i] = k

\* The program ends with `await helper.cmd(); return await helper.eval()`.
EndsWithCmdEval ==
    /\ Len(dfr.prog) >= 2
    /\ dfr.prog[Len(dfr.prog) - 1] = "cmd"
    /\ dfr.prog[Len(dfr.prog)] = "eval"

\* C19: helper.cmd gives the executor `undefined` without a round-trip, so
\* an eval recorded right after awaiting cmd is sent in the round-trip of
\* cmd's call, right after it; defer returns the value of the eval the
\* executor returns, and the executor never sees the value of cmd's call.
C19_CmdThenEvalOneRoundTrip ==
    dfr.st = "defer" =>
        /\ \A k \in 1..Len(dfr.calls) :
               CmdThenEval(k) =>
                   \A r \in 1..Len(dfr.rounds) : \A i \in 1..Len(dfr.rounds[r]) :
                       /\ SentAt(k, r, i) => SentAt(k + 1, r, i + 1)
                       /\ SentAt(k + 1, r, i) => SentAt(k, r, i - 1)
        /\ \A o \in 1..Len(dfr.got) :
               dfr.prog[o] = "cmd" => dfr.got[o] = DeferUndefined
        /\ (dfr.body = "returned" /\ EndsWithCmdEval) =>
               /\ Len(dfr.calls) >= 2
               /\ CmdThenEval(Len(dfr.calls) - 1)
               /\ dfr.result = DeferHostVal(Len(dfr.calls))

\* C19 witness: defer has returned for the executor
\* `await helper.cmd(); return await helper.eval()` after one round-trip
\* carrying both calls.
C19_Witness ==
    /\ dfr.st = "defer"
    /\ dfr.prog = <<"cmd", "eval">>
    /\ dfr.body = "returned"
    /\ dfr.rounds = <<(<<1, 2>>)>>
    /\ dfr.result = DeferHostVal(2)

\* ------------------------------------------------ the loop and its rounds
\* The calls recorded and not yet sent: this.#calls.slice(this.#results.length)
\* is not empty while no round-trip is in flight.
Unsent == IF loopPc = "batch" THEN Len(calls) - Len(results) - Len(loopCalls)
                              ELSE Len(calls) - Len(results)

\* C21 (as stated): the loop does not leave while the helper is open: when
\* it continues after its race without the helper being closed, a recorded
\* call is unsent, and it is done only when the executor has settled and no
\* call is unsent.
C21_LoopLeavesOnlyClosed ==
    /\ (NextJob("loop") /\ ~closed) => Unsent > 0
    /\ loopPc = "done" => (closed /\ runSt \in {"ok", "err"} /\ Unsent = 0)

\* The round-trips the host has not answered yet.
InFlight == {r \in RoundIds : rounds[r].st = "flight"}

\* C22: at most one round-trip is in flight; it is the last one started,
\* the loop awaits it, and when a round-trip is started every earlier one
\* has returned or failed and the slots of all their calls are written.
C22_OneRoundTripInFlight ==
    /\ Cardinality(InFlight) <= 1
    /\ \A r \in InFlight : r = Len(rounds) /\ loopPc = "batch"
    /\ \A r \in RoundIds :
           /\ rounds[r].prevDone
           /\ rounds[r].from = Cum(r - 1)
           /\ rounds[r].st = "done" => Len(results) >= Cum(r)

\* C22 witness: a second round-trip is in flight after the first has
\* returned, with calls recorded while the first was in flight.
C22_Witness ==
    /\ Len(rounds) = 2
    /\ rounds[1].st = "done"
    /\ rounds[2].st = "flight"
    /\ \E j \in CallIds : callLog[j].fl /\ Carries(2, j)

\* The round-trips started before call j was recorded; the last of them was
\* in flight when callLog[j].fl.
RoundsBefore(j) == {r \in RoundIds : rounds[r].upto < j}

\* The invocation that recorded call j.
InvOf(j) == calls[j].inv

\* C23: a call recorded while round-trip N is in flight is not carried by
\* N, and its caller stays suspended when N completes; it is carried by
\* round-trip N+1, which the engine starts after N without any further call
\* being recorded: when nothing is left to run it has been answered.
C23_RecordedInFlight ==
    \A j \in CallIds :
        callLog[j].fl =>
            LET N == Cardinality(RoundsBefore(j)) IN
            /\ N >= 1
            /\ RoundsBefore(j) = 1..N
            /\ ~Carries(N, j)
            /\ \A r \in RoundIds : Carries(r, j) => r = N + 1
            /\ invs[InvOf(j)].inner # "wait" => Answered(j)
            /\ (Len(rounds) = N /\ rounds[N].st = "done") =>
                   invs[InvOf(j)].inner = "wait"
            /\ Quiescent => Answered(j)

\* C23 witness: a call recorded while the first round-trip was in flight,
\* the last call recorded, has been answered by the second.
C23_Witness ==
    /\ Len(calls) >= 2
    /\ callLog[Len(calls)].fl
    /\ Len(rounds) = 2
    /\ Carries(2, Len(calls))
    /\ rounds[2].st = "done"
    /\ invs[InvOf(Len(calls))].st = "ok"

\* The continuation of call()/batch() of invocation i is queued.
Released(i) == \E k \in 1..Len(microtasks) : microtasks[k] = Job("callCont", i)

\* The caller of invocation i has been resumed or is about to be.
Resumed(i) == invs[i].inner # "wait" \/ Released(i)

\* C24: a caller is resumed only when every slot of the round-trip that
\* carried its calls is written, and when a round-trip has completed every
\* caller whose calls it carried has been released by that completion.
C24_ReleasedTogether ==
    \A i \in InvIds :
        (invs[i].idx >= 0 /\ invs[i].n >= 1) =>
            /\ Resumed(i) =>
                   \E r \in RoundIds :
                       /\ \A j \in Ordinals(i) : Carries(r, j)
                       /\ rounds[r].st = "done"
                       /\ Len(results) >= Cum(r)
            /\ \A r \in RoundIds :
                   (Carries(r, invs[i].idx + 1) /\ rounds[r].st = "done") => Resumed(i)

\* C24 witness: a round-trip of two calls of two callers has just
\* completed: both slots are written and both continuations are queued,
\* neither caller having run yet.
C24_Witness ==
    /\ Len(rounds) = 1
    /\ rounds[1].st = "done"
    /\ Len(rounds[1].list) = 2
    /\ Len(results) = 2
    /\ Len(invs) >= 2
    /\ invs[1].inner = "wait" /\ Released(1) /\ Carries(1, invs[1].idx + 1)
    /\ invs[2].inner = "wait" /\ Released(2) /\ Carries(1, invs[2].idx + 1)

\* The executor's computation has settled: its body has ended or thrown, or
\* the promise it returned is settled.
ExecSettled ==
    \/ execOut # "none"
    \/ fibers[Main].pc = "tail" /\ invs[fibers[Main].on].st # "wait"

\* C25 (as stated): from the moment the executor's computation settles the
\* helper is closed, so that no call is recorded after it.
C25_ClosedAtSettlement ==
    ExecSettled => (closed /\ (execAt >= 0 => Len(calls) = execAt))

\* C25 (as amended): the helper is closed only once the executor's
\* computation has settled: in the job that run() continues in after it,
\* queued at the settlement, or at once when the executor throws before it
\* returns, and before accumulate settles; from the close on a helper
\* method, also one invoked by a continuation that the draining round-trip
\* resumed, records no call, leaves the engine alone and rejects with the
\* 'not available outside' error.
C25_ClosedAfterExecutorSettles ==
    [][/\ closed' => ExecSettled'
       /\ (ExecSettled' /\ ~closed') => NumJobs(microtasks', "runCont") = 1
       /\ (closed' /\ ~closed) =>
              \/ ExecSettled /\ NextJob("runCont")
              \/ ~ExecSettled /\ running = <<Main>>
       /\ acc' # "pending" => closed'
       /\ (closed /\ Len(invs') > Len(invs)
           /\ invs'[Len(invs')].kind # "dispatch") =>
              /\ invs'[Len(invs')].idx = -1
              /\ invs'[Len(invs')].inner = "err"
              /\ invs'[Len(invs')].r = Unavailable
              /\ EngineUntouched
       /\ \A i \in 1..Len(invs') :
              (~invs'[i].open /\ invs'[i].kind # "dispatch") =>
                  /\ invs'[i].idx = -1
                  /\ invs'[i].st \in {"wait", "err"}
                  /\ invs'[i].st = "wait" => invs'[i].kind = "cmd"
                  /\ invs'[i].r = Unavailable
                  /\ invs'[i].vals = <<>> /\ invs'[i].out = <<>>]_vars

\* C25 witness: accumulate has not settled; a call was recorded after the
\* executor's computation had settled; a branch of the executor was resumed
\* with the value of a call carried by a round-trip started after the
\* helper was closed, invoked call() again and was rejected.
C25_Witness ==
    /\ acc = "pending"
    /\ execOut # "none" /\ Len(calls) > execAt
    /\ \E i \in InvIds :
           /\ ~invs[i].open /\ ~invs[i].late
           /\ invs[i].kind = "call" /\ invs[i].st = "err"
           /\ \E j \in 1..(i - 1) :
                  /\ invs[j].owner = invs[i].owner
                  /\ invs[j].idx >= 0 /\ invs[j].st = "ok"
                  /\ \E r \in RoundIds :
                         rounds[r].closed /\ Carries(r, invs[j].idx + 1)

\* The values the host returns for the calls of invocation i.
OwnValues(i) == [k \in 1..invs[i].n |-> HostVal(calls[invs[i].idx + k])]

\* C27 (as amended): when the executor has failed while a round-trip was
\* in flight, the round-trip finishes, its results are written to the
\* slots of its calls and every caller it carried is released; a caller
\* resumed after the failure was recorded receives the values of its own
\* calls. Nothing of it reaches accumulate, which does not resolve and
\* rejects with the executor's failure.
C27_InFlightResultsDelivered ==
    [][runSt = "err" =>
          /\ acc' # "ok"
          /\ acc' = "err" => accR' = runR
          /\ \A r \in RoundIds :
                 (rounds[r].st = "flight" /\ ~rounds[r].closed
                  /\ rounds'[r].st = "done") =>
                     /\ Len(results') = Cum(r)
                     /\ \A p \in 1..Len(rounds[r].list) :
                            results'[rounds[r].from + p] = HostOutcome(r, p)'
                     /\ \A i \in InvIds :
                            (invs[i].idx >= 0 /\ Carries(r, invs[i].idx + 1)) =>
                                Released(i)'
          /\ \A i \in InvIds :
                 (invs[i].idx >= 0 /\ invs[i].inner = "wait"
                  /\ invs'[i].inner = "ok") =>
                     invs'[i].vals = OwnValues(i)]_vars

\* C27 witness: run() has rejected with the executor's own error; a
\* round-trip started before the close has completed since, and the next
\* job resumes a caller it carried, whose slot holds the host's value.
C27_Witness ==
    /\ runSt = "err" /\ runR = ExecError
    /\ microtasks # <<>>
    /\ Head(microtasks).t = "callCont"
    /\ LET i == Head(microtasks).a IN
       /\ invs[i].inner = "wait"
       /\ invs[i].kind = "call"
       /\ CallOutcome(invs[i]).st = "ok"
       /\ \E r \in RoundIds :
              /\ ~rounds[r].closed /\ rounds[r].st = "done"
              /\ Carries(r, invs[i].idx + 1)

\* C27 (as stated): after run() has rejected, no caller suspended on a
\* round-trip that was started before the close is resumed with a value.
C27_InFlightResultsDiscarded ==
    [][\A i \in InvIds :
           (/\ runSt = "err"
            /\ invs[i].inner = "wait"
            /\ invs[i].idx >= 0
            /\ \E r \in RoundIds : ~rounds[r].closed /\ Carries(r, invs[i].idx + 1)) =>
               invs'[i].inner # "ok"]_vars

\* ------------------------------------------------------------------ liveness
\* Every job, timer and host answer that can run does run eventually: the
\* job queue is drained, a timer fires, the host answers every round-trip,
\* and a running branch of the executor goes on until it suspends or ends.
LiveSpec == Init /\ [][Next]_vars /\ WF_vars(Next)

\* C26 (as stated): every accumulate invocation eventually settles and its
\* loop eventually terminates.
C26_EventuallySettles == <>(acc # "pending" /\ loopPc = "done")


\* ------------------------------------------------------------------ C29
\* The calls of invocation i sit at the ordinals it was given when it was
\* invoked, with its name and arguments.
KeepsOrdinals(i) ==
    \A k \in 1..invs[i].n :
        /\ invs[i].idx + k <= Len(calls)
        /\ calls[invs[i].idx + k].inv = i
        /\ calls[invs[i].idx + k].k = k
        /\ calls[invs[i].idx + k].fn = FnName(invs[i].kind)

\* Invocations are numbered in the order in which call()/batch()/cmd()/eval()
\* were invoked; the ordinals follow that order.
OrdinalsInOrder ==
    \A i, j \in 1..Len(invs) :
        (i < j /\ Recorded(i) /\ Recorded(j))
            => invs[i].idx + invs[i].n <= invs[j].idx

\* C29: a recorded call keeps its ordinal, name and arguments; the call list
\* only grows at its end; ordinals are given in the order of invocation, also
\* when parallel branches of the executor record calls.
C29_CallsAppendOnly ==
    [][/\ Len(calls') >= Len(calls)
       /\ SubSeq(calls', 1, Len(calls)) = calls
       /\ \A i \in 1..Len(invs') : Recorded(i)' => KeepsOrdinals(i)'
       /\ OrdinalsInOrder'
       /\ \A i \in 1..Len(invs) :
              Recorded(i) => /\ invs'[i].idx = invs[i].idx
                             /\ invs'[i].n = invs[i].n]_vars

\* Two branches of the executor recorded calls, one of them with batch(),
\* and a round-trip has been answered.
C29_Witness ==
    /\ Len(invs) >= 2
    /\ Recorded(1) /\ Recorded(2)
    /\ invs[1].owner # invs[2].owner
    /\ \E i \in 1..2 : invs[i].kind = "batch" /\ invs[i].n = 2
    /\ Len(calls) = 3
    /\ Len(results) >= 1
    /\ KeepsOrdinals(1) /\ KeepsOrdinals(2)


\* ------------------------------------------------------------------ C30
\* C30: the result list only grows at its end, a written slot never changes,
\* it never has more slots than there are recorded calls (the host answers
\* with at most one result per submitted call), and slot j holds what the
\* host computed for call j or the error of the round-trip that carried it.
C30_ResultsWrittenOnce ==
    [][/\ Len(results') >= Len(results)
       /\ SubSeq(results', 1, Len(results)) = results
       /\ Len(results') <= Len(calls')
       /\ \A j \in (Len(results) + 1)..Len(results') :
              /\ j <= Len(calls)
              /\ \E r \in 1..Len(rounds') :
                     /\ Carries(r, j)'
                     /\ results'[j] \in {HostVal(calls[j]),
                                         ErrorResult(HostError(r))}]_vars

\* Two round-trips have been answered, the second one with a failure after
\* the first one's slots were written.
C30_Witness ==
    /\ Len(rounds) = 2
    /\ rounds[1].st = "done" /\ rounds[2].st = "done"
    /\ rounds[2].ans.m # "ok"
    /\ Len(results) = Len(calls)
    /\ results[1].ok
    /\ ~results[Len(results)].ok


\* ====================================================================
\* accumulate() with a deep walk over the executor's value
\* (src/batch/accumulate.ts:204-448).
\*
\* The executor returns an array. An element is the promise of a
\* helper.call(), of a helper.batch() of MaxBatch calls or of a
\* helper.cmd() made by the executor (<<"embed">>, <<"embedBatch">>,
\* <<"embedCmd">>), or the promise of an async function that awaits
\* helper.call(), helper.batch(), helper.cmd() and timers in turn and then
\* returns a plain value. The host connection answers at once (the promise
\* of denops.batch is settled when it is returned, as with the stub of the
\* tests) or in a later macrotask; the timer of #onCalled and the
\* executor's timers are macrotasks too, and the macrotasks run in any
\* order once the microtask queue is empty. resolve() of a deferred of
\* std/async is an async method that awaits its argument before it
\* resolves the promise: the promise is settled, and its reactions are
\* queued, in a job of its own after the call ("settle").
\* The promise of call() is never rejected after cmd() has called it
\* (line 273 awaits #resolved, which is only ever resolved), so #errors
\* stays empty and #ensureNoErrors (line 333) never throws.
MaxElems == 2
MaxSteps == 3
WalkOps == {"call", "sleep", "batch", "cmd"}
WalkChains == UNION {[1..n -> WalkOps] : n \in 0..MaxSteps}
WalkElems == WalkChains \cup {<<"embed">>, <<"embedBatch">>, <<"embedCmd">>}
WalkInputs == UNION {[1..n -> WalkElems] : n \in 1..MaxElems}

\* accumulate() up to the call of the executor (lines 395-401): the helper
\* is new and #resolveCalls waits in its first race (line 332).
WalkStarted(elems) ==
    [st |-> "walk", elems |-> elems,
     pc |-> [b \in 1..Len(elems) |-> 1],
     bst |-> [b \in 1..Len(elems) |-> "new"],
     waitCall |-> [b \in 1..Len(elems) |-> 0],
     inner |-> [b \in 1..Len(elems) |-> 0],
     sleepers |-> {},
     calls |-> <<>>, results |-> <<>>, closed |-> FALSE,
     resolved |-> 1, waits |-> <<>>, calledDone |-> FALSE, calledFrom |-> 1,
     timer |-> FALSE, willStop |-> FALSE,
     loop |-> "race", race |-> 1, raceSettled |-> FALSE,
     host |-> "idle", rounds |-> <<>>,
     exec |-> "start", deepSt |-> "none", left |-> 0,
     body |-> "walk", outLeft |-> 2, outSt |-> "pending", acc |-> "pending",
     micro |-> <<>>]

WalkFrame ==
    UNCHANGED <<deep, dfr, nest, helperVars, loopVars, running, microtasks,
                fibers, invs, accVars, quota, tickOpen, callLog, rounds,
                hostDispatch>>

WalkJob(t) == walk.st = "walk" /\ walk.micro # <<>> /\ Head(walk.micro).t = t
WalkIdle == walk.st = "walk" /\ walk.micro = <<>> /\ walk.exec # "start"
WalkPop == [walk EXCEPT !.micro = Tail(@)]

\* #getCalls (lines 316-318), as ordinals of #calls.
WalkGetCalls(w) == [k \in 1..(Len(w.calls) - Len(w.results)) |-> Len(w.results) + k]

\* The promise of element b settles: resolveResult of the element, once it
\* awaits the promise (line 416), continues in a job, also when the walk of
\* the array is over.
ElemSettles(w, b, how) ==
    IF w.deepSt \in {"none", "await"} THEN w.micro
                                      ELSE Append(w.micro, DJob("elemCont", b, how))

\* this.#calls.push(...) and this.#onCalled() (lines 272-273, 280-281):
\* the calls are recorded, one of each kind given, and the timer of
\* #onCalled is set again. The first call of an invocation is the one
\* whose `await this.#resolved` waits for the current #resolved.
WalkRecord(w, b, kinds) ==
    [w EXCEPT !.calls = @ \o [i \in 1..Len(kinds) |->
                                 [br |-> b, op |-> w.pc[b], kind |-> kinds[i]]],
              !.waits = @ \o [i \in 1..Len(kinds) |->
                                 IF kinds[i] = "more" THEN 0 ELSE w.resolved],
              !.timer = TRUE,
              !.pc[b] = @ + 1]

\* helper.call (lines 269-276) up to `await this.#resolved`.
WalkCall(w, b) ==
    [WalkRecord(w, b, <<"call">>) EXCEPT
        !.bst[b] = "call", !.waitCall[b] = Len(w.calls) + 1]

\* helper.batch of MaxBatch calls (lines 278-285) up to
\* `await this.#resolved`.
WalkBatch(w, b) ==
    [WalkRecord(w, b, [i \in 1..MaxBatch |-> IF i = 1 THEN "batch" ELSE "more"]) EXCEPT
        !.bst[b] = "call", !.waitCall[b] = Len(w.calls) + 1]

\* helper.cmd (lines 287-292): it calls helper.call, which records the
\* call, and returns a promise that is resolved already: the promise
\* given as an element is settled, an async function that awaits it
\* continues in a job.
WalkCmd(w, b) ==
    IF w.elems[b] = <<"embedCmd">>
    THEN [WalkRecord(w, b, <<"cmd">>) EXCEPT
             !.bst[b] = "done", !.micro = ElemSettles(w, b, "ok")]
    ELSE [WalkRecord(w, b, <<"cmd">>) EXCEPT
             !.bst[b] = "ready", !.micro = Append(@, DJob("elemRun", b, ""))]

\* The next operation of element b's function: its return, a timer, or
\* helper.call, helper.batch or helper.cmd. Once the helper is closed
\* #ensureAvailable throws: in helper.cmd (line 288), which is not async,
\* so that the function of the element fails in this step; in helper.call
\* and helper.batch (lines 270, 279), which are async and return a
\* rejected promise, so that the function fails one job later, when its
\* `await` of that promise throws.
WalkContinue(w, b) ==
    IF w.pc[b] > Len(w.elems[b])
    THEN [w EXCEPT !.bst[b] = "done", !.micro = ElemSettles(w, b, "ok")]
    ELSE IF w.elems[b][w.pc[b]] = "sleep"
    THEN [w EXCEPT !.bst[b] = "sleep", !.sleepers = @ \cup {b}, !.pc[b] = @ + 1]
    ELSE IF w.closed /\ w.elems[b][w.pc[b]] = "cmd"
    THEN [w EXCEPT !.bst[b] = "failed", !.micro = ElemSettles(w, b, "err")]
    ELSE IF w.closed
    THEN [w EXCEPT !.bst[b] = "throw", !.micro = Append(@, DJob("elemRun", b, "err"))]
    ELSE IF w.elems[b][w.pc[b]] \in {"batch", "embedBatch"} THEN WalkBatch(w, b)
    ELSE IF w.elems[b][w.pc[b]] \in {"cmd", "embedCmd"} THEN WalkCmd(w, b)
    ELSE WalkCall(w, b)

\* The synchronous part of the executor: every element's function runs to
\* its first `await`, in the order of the array.
RECURSIVE WalkRunAll(_, _)
WalkRunAll(w, b) ==
    IF b > Len(w.elems) THEN w ELSE WalkRunAll(WalkContinue(w, b), b + 1)

\* `const obj = executor(helper); return await resolveResult(obj)` up to the
\* first `await` of resolveResult (lines 401-402, 416).
WalkExecutor ==
    /\ walk.st = "walk"
    /\ walk.exec = "start"
    /\ walk' = [WalkRunAll(walk, 1) EXCEPT
                   !.exec = "done", !.deepSt = "await",
                   !.micro = Append(@, DJob("walkCont", 0, ""))]
    /\ WalkFrame

\* A timer of the executor fires.
WalkWake(b) ==
    /\ WalkIdle
    /\ b \in walk.sleepers
    /\ walk' = [walk EXCEPT !.sleepers = @ \ {b}, !.bst[b] = "ready",
                            !.micro = <<DJob("elemRun", b, "")>>]
    /\ WalkFrame

\* The function of an element continues after an `await`: the await
\* throws what helper.call or helper.batch was rejected with, which rejects
\* the promise of the element, or the function goes on.
WalkElemRun ==
    /\ WalkJob("elemRun")
    /\ LET b == Head(walk.micro).a IN
       IF Head(walk.micro).b = "err"
       THEN walk' = [WalkPop EXCEPT !.bst[b] = "failed",
                                    !.micro = ElemSettles(WalkPop, b, "err")]
       ELSE walk' = WalkContinue(WalkPop, b)
    /\ WalkFrame

\* The timer of #onCalled fires: this.#called.resolve() (line 222) is
\* called, which settles #called one job later.
WalkOnCalled ==
    /\ WalkIdle
    /\ walk.timer
    /\ walk' = [walk EXCEPT !.timer = FALSE,
                            !.micro = <<DJob("settle", 0, "called")>>]
    /\ WalkFrame

\* resolve() of a deferred after its `await value`: the promise is settled
\* and its reactions are queued. #called (line 222): the races of the loop
\* that subscribed to it; willStop (line 234): all races of the loop; the
\* #resolved that #addResults replaced (line 326): the calls that await it
\* (lines 274, 283). Settling a promise that is settled already does
\* nothing.
WalkSettleJob ==
    /\ WalkJob("settle")
    /\ LET j == Head(walk.micro)
           woken == SelectSeq([k \in 1..Len(walk.calls) |-> k],
                              LAMBDA k : walk.waits[k] = j.a) IN
       CASE j.b = "called" ->
                walk' = [walk EXCEPT
                    !.calledDone = TRUE,
                    !.micro = Tail(@) \o (IF walk.calledDone THEN <<>>
                                          ELSE RaceReactions(walk.calledFrom, walk.race))]
         [] j.b = "willStop" ->
                walk' = [walk EXCEPT
                    !.willStop = TRUE,
                    !.micro = Tail(@) \o (IF walk.willStop THEN <<>>
                                          ELSE RaceReactions(1, walk.race))]
         [] OTHER ->
                walk' = [walk EXCEPT
                    !.micro = Tail(@) \o [i \in 1..Len(woken) |->
                                              DJob("callCont", woken[i], "")]]
    /\ WalkFrame

\* A reaction of a Promise.race of the loop (line 332).
WalkRaceJob ==
    /\ WalkJob("raceR")
    /\ LET j == Head(walk.micro) IN
       IF j.a = walk.race /\ walk.loop = "race" /\ ~walk.raceSettled
       THEN walk' = [walk EXCEPT !.raceSettled = TRUE,
                                 !.micro = Append(Tail(@), DJob("loopCont", 0, ""))]
       ELSE walk' = WalkPop
    /\ WalkFrame

\* #resolveCalls after the race (lines 333-336): it leaves the loop, or
\* calls denops.batch, whose promise is settled already ("ok", "err"), so
\* that the loop continues in a job, or is settled by the host "later".
WalkLoopJob(how) ==
    /\ WalkJob("loopCont")
    /\ LET list == WalkGetCalls(walk) IN
       IF list = <<>>
       THEN /\ how = "later"
            /\ walk' = [walk EXCEPT !.loop = "done",
                                    !.micro = Append(Tail(@), DJob("outR", 2, "ok"))]
       ELSE walk' = [walk EXCEPT
                !.loop = "batch",
                !.host = IF how = "later" THEN "flight" ELSE "idle",
                !.rounds = Append(@, list),
                !.micro = IF how = "later" THEN Tail(@)
                          ELSE Append(Tail(@), DJob("batchCont", 0, how))]
    /\ WalkFrame

\* The host answers denops.batch(...calls) (line 336).
WalkHostReturn(ok) ==
    /\ WalkIdle
    /\ walk.host = "flight"
    /\ walk' = [walk EXCEPT !.host = "idle",
                            !.micro = <<DJob("batchCont", 0, IF ok THEN "ok" ELSE "err")>>]
    /\ WalkFrame

\* #resolveCalls after `await this.#denops.batch(...calls)`: it throws, or
\* #addResults (lines 320-328), which calls lastResolved.resolve() when
\* every call has its result, and the next race (line 332).
WalkBatchJob ==
    /\ WalkJob("batchCont")
    /\ LET list == walk.rounds[Len(walk.rounds)]
           res == walk.results \o [i \in 1..Len(list) |-> DeferHostVal(list[i])]
           all == Len(res) = Len(walk.calls)
           called == IF all THEN FALSE ELSE walk.calledDone IN
       IF Head(walk.micro).b = "err"
       THEN walk' = [walk EXCEPT !.loop = "failed",
                                 !.micro = Append(Tail(@), DJob("outR", 2, "err"))]
       ELSE walk' = [walk EXCEPT
                !.results = res,
                !.resolved = IF all THEN @ + 1 ELSE @,
                !.calledDone = called,
                !.calledFrom = IF all THEN walk.race + 1 ELSE @,
                !.loop = "race", !.race = @ + 1, !.raceSettled = FALSE,
                !.micro = ((Tail(@) \o (IF all
                                THEN <<DJob("settle", walk.resolved, "resolved")>>
                                ELSE <<>>))
                            \o (IF called THEN <<DJob("raceR", walk.race + 1, "")>> ELSE <<>>))
                            \o (IF walk.willStop THEN <<DJob("raceR", walk.race + 1, "")>> ELSE <<>>)]
    /\ WalkFrame

\* helper.call or helper.batch after `await this.#resolved` (lines
\* 274-275, 282-284): it returns its slot or its slots. The call of a
\* helper.cmd settles the promise `.catch` was called on (line 290); an
\* embedded call settles its element; an awaited one lets the function of
\* its element continue.
WalkCallCont ==
    /\ WalkJob("callCont")
    /\ LET k == Head(walk.micro).a
           b == walk.calls[k].br
           w == WalkPop IN
       IF walk.calls[k].kind = "cmd"
       THEN walk' = [w EXCEPT !.micro = Append(@, DJob("cmdR", k, ""))]
       ELSE IF walk.elems[b] \in {<<"embed">>, <<"embedBatch">>}
       THEN walk' = [w EXCEPT !.bst[b] = "done", !.waitCall[b] = 0,
                              !.micro = ElemSettles(w, b, "ok")]
       ELSE walk' = [w EXCEPT !.bst[b] = "ready", !.waitCall[b] = 0,
                              !.micro = Append(@, DJob("elemRun", b, ""))]
    /\ WalkFrame

\* The reaction of `.catch(...)` (line 290) on the fulfilled promise of
\* the call of a helper.cmd: the handler is not called and #errors is left
\* alone.
WalkCmdJob ==
    /\ WalkJob("cmdR")
    /\ walk' = WalkPop
    /\ WalkFrame

\* resolveResult of the array after `await obj` (lines 416, 433-440): it
\* calls resolveResult for every element, which awaits the element, and
\* waits for all of them.
WalkDeepJob ==
    /\ WalkJob("walkCont")
    /\ LET n == Len(walk.elems)
           settled == SelectSeq([b \in 1..n |-> b],
                                LAMBDA b : walk.bst[b] \in {"done", "failed"}) IN
       walk' = [walk EXCEPT
           !.deepSt = "all", !.left = n,
           !.micro = Tail(@) \o
               [i \in 1..Len(settled) |->
                    DJob("elemCont", settled[i],
                         IF walk.bst[settled[i]] = "done" THEN "ok" ELSE "err")]]
    /\ WalkFrame

\* resolveResult of an element after `await obj` (line 416): the await
\* throws, or the value is plain and returned (line 447), or it is the array
\* of the results of a helper.batch and resolveResult is called for each
\* of them (lines 433-440).
WalkElemJob ==
    /\ WalkJob("elemCont")
    /\ LET b == Head(walk.micro).a
           how == Head(walk.micro).b IN
       IF how = "ok" /\ walk.elems[b] = <<"embedBatch">>
       THEN walk' = [walk EXCEPT
                !.inner[b] = MaxBatch,
                !.micro = Tail(@) \o [i \in 1..MaxBatch |-> DJob("itemCont", b, "")]]
       ELSE walk' = [walk EXCEPT !.micro = Append(Tail(@), DJob("allR", b, how))]
    /\ WalkFrame

\* resolveResult of a result of a helper.batch after `await obj` (line
\* 416): the value is plain and returned (line 447).
WalkItemJob ==
    /\ WalkJob("itemCont")
    /\ walk' = [walk EXCEPT
           !.micro = Append(Tail(@), DJob("itemR", Head(walk.micro).a, ""))]
    /\ WalkFrame

\* A reaction of the Promise.all of line 437 over the results of a
\* helper.batch: the last one fulfils its promise.
WalkItemAllJob ==
    /\ WalkJob("itemR")
    /\ LET b == Head(walk.micro).a IN
       walk' = [walk EXCEPT
           !.inner[b] = @ - 1,
           !.micro = IF walk.inner[b] = 1
                         THEN Append(Tail(@), DJob("itemsEnd", b, ""))
                         ELSE Tail(@)]
    /\ WalkFrame

\* resolveResult of the array of the results of a helper.batch after
\* `await Promise.all(...)`: the values are stored and the array is
\* returned (lines 441-447).
WalkItemsEndJob ==
    /\ WalkJob("itemsEnd")
    /\ walk' = [walk EXCEPT
           !.micro = Append(Tail(@), DJob("allR", Head(walk.micro).a, "ok"))]
    /\ WalkFrame

\* A reaction of the Promise.all of line 437.
WalkAllJob ==
    /\ WalkJob("allR")
    /\ LET how == Head(walk.micro).b IN
       IF walk.deepSt # "all"
       THEN walk' = WalkPop
       ELSE IF how = "err"
       THEN walk' = [walk EXCEPT !.deepSt = "failing",
                                 !.micro = Append(Tail(@), DJob("walkEnd", 0, "err"))]
       ELSE walk' = [walk EXCEPT
                !.left = @ - 1,
                !.deepSt = IF walk.left = 1 THEN "stored" ELSE @,
                !.micro = IF walk.left = 1
                              THEN Append(Tail(@), DJob("walkEnd", 0, "ok"))
                              ELSE Tail(@)]
    /\ WalkFrame

\* resolveResult of the array after `await Promise.all(...)`: the values
\* are stored and the array returned (lines 441-447), or it throws.
WalkEndJob ==
    /\ WalkJob("walkEnd")
    /\ walk' = [walk EXCEPT
           !.deepSt = IF Head(walk.micro).b = "ok" THEN "done" ELSE "rejected",
           !.micro = Append(Tail(@), DJob("wrapCont", 0, Head(walk.micro).b))]
    /\ WalkFrame

\* The async function of lines 399-406 after `await resolveResult(obj)`:
\* resolver.stop() in its `finally` calls willStop.resolve() (line 234),
\* which settles willStop one job later, then the function settles.
WalkStopJob ==
    /\ WalkJob("wrapCont")
    /\ LET how == Head(walk.micro).b IN
       walk' = [walk EXCEPT
           !.body = IF how = "ok" THEN "done" ELSE "rejected",
           !.micro = Append(Append(Tail(@), DJob("settle", 0, "willStop")),
                            DJob("outR", 1, how))]
    /\ WalkFrame

\* A reaction of the Promise.all of line 398.
WalkOutJob ==
    /\ WalkJob("outR")
    /\ LET how == Head(walk.micro).b IN
       IF walk.outSt # "pending"
       THEN walk' = WalkPop
       ELSE IF how = "err"
       THEN walk' = [walk EXCEPT !.outSt = "err",
                                 !.micro = Append(Tail(@), DJob("accCont", 0, "err"))]
       ELSE walk' = [walk EXCEPT
                !.outLeft = @ - 1,
                !.outSt = IF walk.outLeft = 1 THEN "ok" ELSE @,
                !.micro = IF walk.outLeft = 1
                              THEN Append(Tail(@), DJob("accCont", 0, "ok"))
                              ELSE Tail(@)]
    /\ WalkFrame

\* accumulate after `await Promise.all(...)`: it returns the result or
\* throws, and closes the helper in its `finally` (lines 409-412).
WalkFinish ==
    /\ WalkJob("accCont")
    /\ walk' = [walk EXCEPT
           !.closed = TRUE,
           !.acc = IF Head(walk.micro).b = "ok" THEN "resolved" ELSE "rejected",
           !.micro = Tail(@)]
    /\ WalkFrame

WalkInit ==
    /\ Fresh
    /\ quota = [inv |-> 0, susp |-> 0, side |-> 0, kinds |-> {"call"},
                throw |-> FALSE, fail |-> FALSE]
    /\ nest = Unused
    /\ deep = Unused
    /\ dfr = Unused
    /\ walk \in {WalkStarted(e) : e \in WalkInputs}

WalkNext ==
    \/ WalkExecutor
    \/ \E b \in 1..MaxElems : WalkWake(b)
    \/ WalkElemRun
    \/ WalkOnCalled
    \/ WalkSettleJob
    \/ WalkRaceJob
    \/ \E how \in {"ok", "err", "later"} : WalkLoopJob(how)
    \/ \E ok \in BOOLEAN : WalkHostReturn(ok)
    \/ WalkBatchJob
    \/ WalkCallCont
    \/ WalkCmdJob
    \/ WalkDeepJob
    \/ WalkElemJob
    \/ WalkItemJob
    \/ WalkItemAllJob
    \/ WalkItemsEndJob
    \/ WalkAllJob
    \/ WalkEndJob
    \/ WalkStopJob
    \/ WalkOutJob
    \/ WalkFinish

WalkSpec == WalkInit /\ [][WalkNext]_vars


\* ------------------------------------------------------------------ C28
\* The walk over the executor's value has completed.
WalkCompleted == walk.deepSt \in {"done", "rejected"}

\* Every recorded call was sent in a round-trip and has its result.
WalkAllAnswered ==
    /\ Len(walk.results) = Len(walk.calls)
    /\ \A k \in 1..Len(walk.calls) :
           \E r \in 1..Len(walk.rounds) :
               \E i \in 1..Len(walk.rounds[r]) : walk.rounds[r][i] = k

\* C28: the engine is not told to stop before the walk over the executor's
\* value has completed, and it does not end while a recorded call is unsent;
\* when accumulate resolves, every call of the returned structure and of
\* its continuations has been sent in a round-trip and resolved, and every
\* element is settled.
C28_EngineOutlastsWalk ==
    /\ walk.willStop => WalkCompleted
    /\ walk.loop = "done" => WalkAllAnswered
    /\ walk.acc = "resolved"
           => /\ WalkAllAnswered
              /\ \A b \in 1..Len(walk.elems) :
                     walk.bst[b] = "done" /\ walk.pc[b] > Len(walk.elems[b])


\* ------------------------------------------------------------------ C31
\* The slots of all calls of invocation i are written: the result list is
\* longer than the ordinal (counted from 0) of its last call.
OwnSlotsWritten(i) == Len(results) > invs[i].idx + invs[i].n - 1

\* C31: a caller of call()/batch() whose continuation is queued or has run
\* has the slots of all of its own calls written, and the step that runs
\* the continuation finds them written.
C31_ResumedAfterOwnSlots ==
    [][/\ \A i \in 1..Len(invs') : (Recorded(i)' /\ Resumed(i)') => OwnSlotsWritten(i)'
       /\ \A i \in InvIds :
              (Recorded(i) /\ invs[i].inner = "wait" /\ invs'[i].inner # "wait")
                  => OwnSlotsWritten(i)]_vars

\* A batch() of two calls was resumed with both slots written while a call
\* recorded during its round-trip is still suspended, its slot unwritten.
C31_Witness ==
    /\ Len(invs) >= 2
    /\ invs[1].kind = "batch" /\ invs[1].n = 2 /\ invs[1].inner = "ok"
    /\ OwnSlotsWritten(1)
    /\ Recorded(2) /\ invs[2].inner = "wait" /\ ~Released(2)
    /\ ~OwnSlotsWritten(2)


\* ------------------------------------------------------------------ C32
\* C32: every round-trip carries at least one call, a step that starts a
\* round-trip hands the host a non-empty list, and while no call is
\* recorded no round-trip was made and none is in flight.
C32_NoEmptyRoundTrip ==
    [][/\ \A r \in 1..Len(rounds') : Len(rounds'[r].list) >= 1
       /\ Len(rounds') > Len(rounds) => (loopCalls' # <<>> /\ loopPc' = "batch")
       /\ loopPc' = "batch" => loopCalls' # <<>>
       /\ calls' = <<>> => (rounds' = <<>> /\ ~hostPending' /\ loopPc' # "batch")]_vars

\* accumulate has resolved for an executor that recorded no call: the loop
\* was woken by the close of the helper and left without a round-trip.
C32_Witness ==
    /\ acc = "ok"
    /\ calls = <<>>
    /\ closed
    /\ loopPc = "done"
    /\ rounds = <<>>


\* ------------------------------------------------------------------ C33
\* C33: when accumulate has resolved, no round-trip is in flight, the loop
\* has ended, and every recorded call has a written result slot.
C33_ResolvedMeansAllAnswered ==
    acc = "ok" =>
        /\ InFlight = {}
        /\ ~hostPending
        /\ loopPc = "done"
        /\ Len(results) = Len(calls)


\* ------------------------------------------------------------------ C34
\* C34: once the helper is closed it stays closed, its close signal stays
\* resolved, and no step adds to or changes the recorded call list.
C34_ClosedForGood ==
    [][closed => (closed' /\ closedWaiter' /\ calls' = calls)]_vars

\* A helper method was invoked on the closed helper before accumulate
\* settled, with calls recorded earlier: it was refused and recorded none.
C34_Witness ==
    /\ closed
    /\ acc = "pending"
    /\ Len(calls) >= 1
    /\ \E i \in InvIds :
           /\ ~invs[i].open
           /\ invs[i].kind \in {"call", "batch"}
           /\ invs[i].idx = -1
           /\ invs[i].r = Unavailable

====
